---- MODULE Spec2Model ----
(***************************************************************************)
(* memc: the /proc/<pid>/maps and smaps parsers, the one-shot collector    *)
(* and the periodic Sampler with its snapshot history.                     *)
(*                                                                         *)
(* Text is modelled as a sequence of one-character strings, so that the    *)
(* scanning code (sscanf, getline, find) is modelled by what it does.      *)
(* uint64_t is modelled as an unsigned word of WordBits bits.              *)
(***************************************************************************)
EXTENDS Integers, Sequences, FiniteSets, TLC

\* ------------------------------------------------------------------ bounds
WordBits == 12
MaxTime == 3
MaxObservers == 2
MaxCapacity == 2
MaxSpawns == 2
MaxLines == 3

\* ------------------------------------------------------- machine integers
Pow2(n) == 2 ^ n
ULONG_MAX == Pow2(WordBits) - 1
Wrap(v) == v % Pow2(WordBits)

\* ------------------------------------------------------------ text helpers
Str0 == << >>
Drop(s, n) == IF n >= Len(s) THEN Str0 ELSE SubSeq(s, n + 1, Len(s))
Take(s, n) == IF n >= Len(s) THEN s ELSE SubSeq(s, 1, n)

\* isspace() in the C locale (the vertical tab cannot be written as a TLA+
\* character and is not in any text of the model)
IsSpace(c) == c \in {" ", "\t", "\n", "\r", "\f"}

HexDigits == <<"0", "1", "2", "3", "4", "5", "6", "7", "8", "9",
               "a", "b", "c", "d", "e", "f">>
HexUpper == <<"0", "1", "2", "3", "4", "5", "6", "7", "8", "9",
              "A", "B", "C", "D", "E", "F">>
IsXDigit(c) == (\E i \in 1..16 : HexDigits[i] = c) \/ (\E i \in 1..16 : HexUpper[i] = c)
IsDigit(c) == \E i \in 1..10 : HexDigits[i] = c
DigitVal(c) == (CHOOSE i \in 1..16 : HexDigits[i] = c \/ HexUpper[i] = c) - 1

RECURSIVE SkipSpace(_)
SkipSpace(s) == IF s # Str0 /\ IsSpace(s[1]) THEN SkipSpace(Tail(s)) ELSE s

\* s.find(sub) != npos
StartsWith(s, sub) == Len(s) >= Len(sub) /\ SubSeq(s, 1, Len(sub)) = sub
Contains(s, sub) == \E i \in 0..Len(s) : StartsWith(Drop(s, i), sub)

\* s.find(c): the first position of c, or 0 for npos
FindChar(s, c) == IF \E i \in 1..Len(s) : s[i] = c
                  THEN CHOOSE i \in 1..Len(s) : s[i] = c /\ \A j \in 1..(i - 1) : s[j] # c
                  ELSE 0

\* --------------------------------------------------------------- sscanf
\* The digits of a %lx / %lu conversion: the value is accumulated as strtoul
\* does, sticking at ULONG_MAX once it overflows.
RECURSIVE ScanDigits(_, _, _, _, _)
ScanDigits(s, base, acc, n, over) ==
    IF s # Str0 /\ (IF base = 16 THEN IsXDigit(s[1]) ELSE IsDigit(s[1]))
    THEN IF over \/ acc * base + DigitVal(s[1]) > ULONG_MAX
         THEN ScanDigits(Tail(s), base, ULONG_MAX, n + 1, TRUE)
         ELSE ScanDigits(Tail(s), base, acc * base + DigitVal(s[1]), n + 1, FALSE)
    ELSE [val |-> acc, n |-> n, over |-> over, rest |-> s]

\* the conversion fails without a digit; a negative value is negated in the
\* unsigned type
ScanResult(d, neg) ==
    IF d.n = 0
    THEN [ok |-> FALSE, val |-> 0, rest |-> d.rest]
    ELSE [ok |-> TRUE,
          val |-> IF d.over THEN ULONG_MAX
                  ELSE IF neg THEN Wrap(Pow2(WordBits) - d.val) ELSE d.val,
          rest |-> d.rest]

HasHexPrefix(s, base) ==
    base = 16 /\ Len(s) >= 2 /\ s[1] = "0" /\ s[2] \in {"x", "X"}

ScanAfterSign(s, neg, base) ==
    ScanResult(ScanDigits(IF HasHexPrefix(s, base) THEN Drop(s, 2) ELSE s,
                          base, 0, 0, FALSE), neg)

ScanAfterSpace(s, base) ==
    ScanAfterSign(IF s # Str0 /\ s[1] \in {"-", "+"} THEN Tail(s) ELSE s,
                  s # Str0 /\ s[1] = "-", base)

\* %lx and %lu: skip white space, an optional sign, for base 16 an optional
\* 0x prefix, then at least one digit
ScanULong(s, base) == ScanAfterSpace(SkipSpace(s), base)

\* %Ns: skip white space, then up to width characters that are not white space
RECURSIVE ScanWord(_, _, _)
ScanWord(s, width, acc) ==
    IF s # Str0 /\ ~IsSpace(s[1]) /\ Len(acc) < width
    THEN ScanWord(Tail(s), width, Append(acc, s[1]))
    ELSE [ok |-> acc # Str0, val |-> acc, rest |-> s]

ScanString(s, width) == ScanWord(SkipSpace(s), width, Str0)

\* what sscanf leaves in a variable it does not assign: the initial value
NoNumber == [ok |-> FALSE, val |-> 0, rest |-> Str0]
NoString == [ok |-> FALSE, val |-> Str0, rest |-> Str0]

Fields(n, f1, f2, f3, f4, f5, f6) ==
    [fields_read |-> n, start |-> f1.val, end |-> f2.val, perms |-> f3.val,
     offset |-> f4.val, dev |-> f5.val, inode |-> f6.val]

\* std::sscanf(line, "%lx-%lx %4s %lx %15s %lu", ...), one conversion after
\* the other, stopping at the first that fails
Scan6(f1, f2, f3, f4, f5, f6) ==
    Fields(IF f6.ok THEN 6 ELSE 5, f1, f2, f3, f4, f5, f6)

Scan5(f1, f2, f3, f4, f5) ==
    IF f5.ok THEN Scan6(f1, f2, f3, f4, f5, ScanULong(f5.rest, 10))
    ELSE Fields(4, f1, f2, f3, f4, NoString, NoNumber)

Scan4(f1, f2, f3, f4) ==
    IF f4.ok THEN Scan5(f1, f2, f3, f4, ScanString(f4.rest, 15))
    ELSE Fields(3, f1, f2, f3, NoNumber, NoString, NoNumber)

Scan3(f1, f2, f3) ==
    IF f3.ok THEN Scan4(f1, f2, f3, ScanULong(f3.rest, 16))
    ELSE Fields(2, f1, f2, NoString, NoNumber, NoString, NoNumber)

Scan2(f1, f2) ==
    IF f2.ok THEN Scan3(f1, f2, ScanString(f2.rest, 4))
    ELSE Fields(1, f1, NoNumber, NoString, NoNumber, NoString, NoNumber)

Scan1(f1) ==
    IF ~f1.ok
    THEN Fields(0, NoNumber, NoNumber, NoString, NoNumber, NoString, NoNumber)
    ELSE IF f1.rest # Str0 /\ f1.rest[1] = "-"
    THEN Scan2(f1, ScanULong(Tail(f1.rest), 16))
    ELSE Fields(1, f1, NoNumber, NoString, NoNumber, NoString, NoNumber)

\* a scan that reads the start address with %lu
ScanMapsLineDecimal(line) == Scan1(ScanULong(line, 10))

ScanMapsLine(line) == Scan1(ScanULong(line, 16))

\* ------------------------------------------------------------- MapsParser
RegionType == {"HEAP", "STACK", "CODE", "SHARED_LIB", "VDSO", "VVAR", "VSYSCALL",
               "MAPPED_FILE", "ANONYMOUS", "UNKNOWN"}

\* a default-constructed MemoryRegion
MemoryRegion ==
    [start_addr |-> 0, end_addr |-> 0, permissions |-> Str0, offset |-> 0,
     device |-> Str0, inode |-> 0, pathname |-> Str0, type |-> "UNKNOWN",
     size_kb |-> 0, rss_kb |-> 0, pss_kb |-> 0, shared_clean_kb |-> 0,
     shared_dirty_kb |-> 0, private_clean_kb |-> 0, private_dirty_kb |-> 0,
     swap_kb |-> 0, has_smaps_data |-> FALSE]

size_bytes(r) == Wrap(r.end_addr - r.start_addr + Pow2(WordBits))

HasExec(permissions) == Len(permissions) >= 3 /\ permissions[3] = "x"

\* a classification that tests the execute bit before the ".so"
ClassifyExecFirst(pathname, permissions) ==
    IF pathname = <<"[", "h", "e", "a", "p", "]">> THEN "HEAP"
    ELSE IF Contains(pathname, <<"[", "s", "t", "a", "c", "k">>) THEN "STACK"
    ELSE IF pathname = <<"[", "v", "d", "s", "o", "]">> THEN "VDSO"
    ELSE IF pathname = <<"[", "v", "v", "a", "r", "]">> THEN "VVAR"
    ELSE IF pathname = <<"[", "v", "s", "y", "s", "c", "a", "l", "l", "]">> THEN "VSYSCALL"
    ELSE IF pathname # Str0 /\ pathname[1] = "/"
         THEN IF HasExec(permissions) THEN "CODE"
              ELSE IF Contains(pathname, <<".", "s", "o">>) THEN "SHARED_LIB"
              ELSE "MAPPED_FILE"
    ELSE IF pathname = Str0
         THEN IF HasExec(permissions) THEN "CODE" ELSE "ANONYMOUS"
    ELSE "UNKNOWN"

classify_region(pathname, permissions) ==
    IF pathname = <<"[", "h", "e", "a", "p", "]">> THEN "HEAP"
    ELSE IF Contains(pathname, <<"[", "s", "t", "a", "c", "k">>) THEN "STACK"
    ELSE IF pathname = <<"[", "v", "d", "s", "o", "]">> THEN "VDSO"
    ELSE IF pathname = <<"[", "v", "v", "a", "r", "]">> THEN "VVAR"
    ELSE IF pathname = <<"[", "v", "s", "y", "s", "c", "a", "l", "l", "]">> THEN "VSYSCALL"
    ELSE IF pathname # Str0 /\ pathname[1] = "/"
         THEN IF Contains(pathname, <<".", "s", "o">>) THEN "SHARED_LIB"
              ELSE IF HasExec(permissions) THEN "CODE"
              ELSE "MAPPED_FILE"
    ELSE IF pathname = Str0
         THEN IF HasExec(permissions) THEN "CODE" ELSE "ANONYMOUS"
    ELSE "UNKNOWN"

\* the loop of parse_line that looks for the label: the position at which it
\* stops, Len(line) + 1 when it runs to the end of the line
RECURSIVE LabelScan(_, _, _, _)
LabelScan(line, i, spaces, in_space) ==
    IF i > Len(line) THEN i
    ELSE IF (IF line[i] \in {" ", "\t"} /\ ~in_space THEN spaces + 1 ELSE spaces) >= 5
            /\ line[i] \notin {" ", "\t"}
    THEN i
    ELSE LabelScan(line, i + 1,
                   IF line[i] \in {" ", "\t"} /\ ~in_space THEN spaces + 1 ELSE spaces,
                   line[i] \in {" ", "\t"})

RECURSIVE SkipBlank(_)
SkipBlank(s) == IF s # Str0 /\ s[1] \in {" ", "\t"} THEN SkipBlank(Tail(s)) ELSE s

RECURSIVE TrimRight(_)
TrimRight(s) == IF s # Str0 /\ s[Len(s)] \in {" ", "\t", "\n", "\r"}
                THEN TrimRight(SubSeq(s, 1, Len(s) - 1)) ELSE s

LabelOf(line) == TrimRight(SkipBlank(Drop(line, LabelScan(line, 1, 0, FALSE) - 1)))

\* the region parse_line fills in from the scanned fields and the label
RegionOf(f, pathname) ==
    [MemoryRegion EXCEPT
        !.start_addr = f.start, !.end_addr = f.end,
        !.permissions = f.perms, !.offset = f.offset,
        !.device = f.dev, !.inode = f.inode,
        !.pathname = pathname,
        !.type = classify_region(pathname, f.perms),
        !.size_kb = Wrap(f.end - f.start + Pow2(WordBits)) \div 1024]

ParsedLine(f, line) ==
    IF f.fields_read < 6 THEN [ok |-> FALSE, region |-> MemoryRegion]
    ELSE [ok |-> TRUE, region |-> RegionOf(f, LabelOf(line))]

\* std::optional<MemoryRegion>: [ok |-> FALSE] is std::nullopt
parse_line(line) == ParsedLine(ScanMapsLine(line), line)

\* std::getline over the content: the lines, without their terminators (a
\* final line without terminator counts, nothing after a final terminator)
RECURSIVE GetLines(_, _)
GetLines(content, cur) ==
    IF content = Str0 THEN (IF cur = Str0 THEN << >> ELSE <<cur>>)
    ELSE IF content[1] = "\n" THEN <<cur>> \o GetLines(Tail(content), Str0)
    ELSE GetLines(Tail(content), Append(cur, content[1]))

\* a push_back that does not test the optional
PushedAlways(region) == <<region.region>>

\* if (region) regions.push_back(*region);
Pushed(region) == IF region.ok THEN <<region.region>> ELSE << >>

RECURSIVE MapsParseLines(_)
MapsParseLines(lines) ==
    IF lines = << >> THEN << >>
    ELSE (IF Head(lines) = Str0 THEN << >> ELSE Pushed(parse_line(Head(lines))))
         \o MapsParseLines(Tail(lines))

MapsParser_parse_from_string(content) == MapsParseLines(GetLines(content, Str0))

\* a /proc file as std::ifstream finds it: whether it opens, and its text
NoFile == [is_open |-> FALSE, content |-> Str0]
File(text) == [is_open |-> TRUE, content |-> text]

\* std::optional<std::vector<MemoryRegion>>: [ok |-> FALSE] is std::nullopt
MapsParser_parse(file) ==
    IF ~file.is_open THEN [ok |-> FALSE, regions |-> << >>]
    ELSE [ok |-> TRUE, regions |-> MapsParser_parse_from_string(file.content)]

\* ------------------------------------------------------------ SmapsParser
Key_Size == <<"S", "i", "z", "e">>
Key_Rss == <<"R", "s", "s">>
Key_Pss == <<"P", "s", "s">>
Key_Shared_Clean == <<"S", "h", "a", "r", "e", "d", "_", "C", "l", "e", "a", "n">>
Key_Shared_Dirty == <<"S", "h", "a", "r", "e", "d", "_", "D", "i", "r", "t", "y">>
Key_Private_Clean == <<"P", "r", "i", "v", "a", "t", "e", "_", "C", "l", "e", "a", "n">>
Key_Private_Dirty == <<"P", "r", "i", "v", "a", "t", "e", "_", "D", "i", "r", "t", "y">>
Key_Swap == <<"S", "w", "a", "p">>

\* a chain in which the key Rss also sets the pss
SetFieldLoose(region, key, value) ==
    IF key = Key_Size THEN [region EXCEPT !.size_kb = value]
    ELSE IF key = Key_Rss THEN [region EXCEPT !.rss_kb = value, !.pss_kb = value]
    ELSE IF key = Key_Pss THEN [region EXCEPT !.pss_kb = value]
    ELSE IF key = Key_Shared_Clean THEN [region EXCEPT !.shared_clean_kb = value]
    ELSE IF key = Key_Shared_Dirty THEN [region EXCEPT !.shared_dirty_kb = value]
    ELSE IF key = Key_Private_Clean THEN [region EXCEPT !.private_clean_kb = value]
    ELSE IF key = Key_Private_Dirty THEN [region EXCEPT !.private_dirty_kb = value]
    ELSE IF key = Key_Swap THEN [region EXCEPT !.swap_kb = value]
    ELSE region

\* the chain of comparisons of the key
SetField(region, key, value) ==
    IF key = Key_Size THEN [region EXCEPT !.size_kb = value]
    ELSE IF key = Key_Rss THEN [region EXCEPT !.rss_kb = value]
    ELSE IF key = Key_Pss THEN [region EXCEPT !.pss_kb = value]
    ELSE IF key = Key_Shared_Clean THEN [region EXCEPT !.shared_clean_kb = value]
    ELSE IF key = Key_Shared_Dirty THEN [region EXCEPT !.shared_dirty_kb = value]
    ELSE IF key = Key_Private_Clean THEN [region EXCEPT !.private_clean_kb = value]
    ELSE IF key = Key_Private_Dirty THEN [region EXCEPT !.private_dirty_kb = value]
    ELSE IF key = Key_Swap THEN [region EXCEPT !.swap_kb = value]
    ELSE region

\* uint64_t value = 0; std::sscanf(value_part, " %lu", &value);
ValueOf(scanned) == IF scanned.ok THEN scanned.val ELSE 0

SplitAt(line, region, colon_pos) ==
    IF colon_pos = 0 THEN region
    ELSE SetField(region, SubSeq(line, 1, colon_pos - 1),
                  ValueOf(ScanULong(Drop(line, colon_pos), 10)))

apply_detail_line(line, region) == SplitAt(line, region, FindChar(line, ":"))

\* a header line that parsed: push it, flag it, make it the current region
\* a header branch in which a line that does not parse ends the block
SmapsHeaderClosing(acc, parsed) ==
    IF parsed # << >>
    THEN [regions |-> Append(acc.regions, [parsed[1] EXCEPT !.has_smaps_data = TRUE]),
          current_idx |-> Len(acc.regions) + 1]
    ELSE [acc EXCEPT !.current_idx = 0]

\* a header that leaves current_idx at the first region
SmapsHeaderStuck(acc, parsed) ==
    IF parsed # << >>
    THEN [regions |-> Append(acc.regions, [parsed[1] EXCEPT !.has_smaps_data = TRUE]),
          current_idx |-> IF acc.current_idx = 0 THEN 1 ELSE acc.current_idx]
    ELSE acc

SmapsHeader(acc, parsed) ==
    IF parsed # << >>
    THEN [regions |-> Append(acc.regions, [parsed[1] EXCEPT !.has_smaps_data = TRUE]),
          current_idx |-> Len(acc.regions) + 1]
    ELSE acc

\* a loop body that makes a region for a detail line without a header
SmapsLineOrphan(line, acc) ==
    IF line = Str0 THEN acc
    ELSE IF IsXDigit(line[1])
    THEN SmapsHeader(acc, MapsParser_parse_from_string(Append(line, "\n")))
    ELSE IF acc.current_idx # 0
    THEN [acc EXCEPT !.regions[acc.current_idx] = apply_detail_line(line, @)]
    ELSE [regions |-> Append(acc.regions, apply_detail_line(line, MemoryRegion)),
          current_idx |-> Len(acc.regions) + 1]

\* the body of the loop of SmapsParser::parse_from_string for one line;
\* current_idx is 0 while unset
SmapsLine(line, acc) ==
    IF line = Str0 THEN acc
    ELSE IF IsXDigit(line[1])
    THEN SmapsHeader(acc, MapsParser_parse_from_string(Append(line, "\n")))
    ELSE IF acc.current_idx # 0
    THEN [acc EXCEPT !.regions[acc.current_idx] = apply_detail_line(line, @)]
    ELSE acc

RECURSIVE SmapsParseLines(_, _)
SmapsParseLines(lines, acc) ==
    IF lines = << >> THEN acc
    ELSE SmapsParseLines(Tail(lines), SmapsLine(Head(lines), acc))

SmapsParser_parse_from_string(content) ==
    SmapsParseLines(GetLines(content, Str0),
                    [regions |-> << >>, current_idx |-> 0]).regions

SmapsParser_parse(file) ==
    IF ~file.is_open THEN [ok |-> FALSE, regions |-> << >>]
    ELSE [ok |-> TRUE, regions |-> SmapsParser_parse_from_string(file.content)]

\* a lookup that keeps the first entry of a start address
SmapsLookupFirst(smaps_result, start_addr) ==
    IF \E i \in 1..Len(smaps_result) : smaps_result[i].start_addr = start_addr
    THEN CHOOSE i \in 1..Len(smaps_result) :
            /\ smaps_result[i].start_addr = start_addr
            /\ \A j \in 1..(i - 1) : smaps_result[j].start_addr # start_addr
    ELSE 0

\* smaps_lookup[start_addr]: the index the first loop of enrich leaves in the
\* map, the last entry with that start address; 0 when there is none
SmapsLookup(smaps_result, start_addr) ==
    IF \E i \in 1..Len(smaps_result) : smaps_result[i].start_addr = start_addr
    THEN CHOOSE i \in 1..Len(smaps_result) :
            /\ smaps_result[i].start_addr = start_addr
            /\ \A j \in (i + 1)..Len(smaps_result) : smaps_result[j].start_addr # start_addr
    ELSE 0

\* a copy that takes the size of the entry as well
CopyDetailWithSize(region, sr) ==
    [region EXCEPT
        !.size_kb = sr.size_kb,
        !.rss_kb = sr.rss_kb, !.pss_kb = sr.pss_kb,
        !.shared_clean_kb = sr.shared_clean_kb,
        !.shared_dirty_kb = sr.shared_dirty_kb,
        !.private_clean_kb = sr.private_clean_kb,
        !.private_dirty_kb = sr.private_dirty_kb,
        !.swap_kb = sr.swap_kb, !.has_smaps_data = TRUE]

\* a copy that leaves out the swap
CopyDetailNoSwap(region, sr) ==
    [region EXCEPT
        !.rss_kb = sr.rss_kb, !.pss_kb = sr.pss_kb,
        !.shared_clean_kb = sr.shared_clean_kb,
        !.shared_dirty_kb = sr.shared_dirty_kb,
        !.private_clean_kb = sr.private_clean_kb,
        !.private_dirty_kb = sr.private_dirty_kb,
        !.has_smaps_data = TRUE]

\* a copy that adds the resident size to the one the region has
CopyDetailAdd(region, sr) ==
    [region EXCEPT
        !.rss_kb = Wrap(@ + sr.rss_kb), !.pss_kb = sr.pss_kb,
        !.shared_clean_kb = sr.shared_clean_kb,
        !.shared_dirty_kb = sr.shared_dirty_kb,
        !.private_clean_kb = sr.private_clean_kb,
        !.private_dirty_kb = sr.private_dirty_kb,
        !.swap_kb = sr.swap_kb, !.has_smaps_data = TRUE]

CopyDetail(region, sr) ==
    [region EXCEPT
        !.rss_kb = sr.rss_kb, !.pss_kb = sr.pss_kb,
        !.shared_clean_kb = sr.shared_clean_kb,
        !.shared_dirty_kb = sr.shared_dirty_kb,
        !.private_clean_kb = sr.private_clean_kb,
        !.private_dirty_kb = sr.private_dirty_kb,
        !.swap_kb = sr.swap_kb, !.has_smaps_data = TRUE]

\* a lookup that flags the region also when nothing was found
FoundAlwaysFlag(region, smaps_result, it) ==
    IF it = 0 THEN [region EXCEPT !.has_smaps_data = TRUE]
    ELSE CopyDetail(region, smaps_result[it])

Found(region, smaps_result, it) ==
    IF it = 0 THEN region ELSE CopyDetail(region, smaps_result[it])

EnrichRegion(region, smaps_result) ==
    Found(region, smaps_result, SmapsLookup(smaps_result, region.start_addr))

\* an enrich that reports failure when no region was matched
EnrichWithStrict(smaps_result, regions) ==
    IF ~smaps_result.ok THEN [ok |-> FALSE, regions |-> regions]
    ELSE [ok |-> \E i \in 1..Len(regions) :
                    SmapsLookup(smaps_result.regions, regions[i].start_addr) # 0,
          regions |-> [i \in 1..Len(regions) |->
                          EnrichRegion(regions[i], smaps_result.regions)]]

EnrichWith(smaps_result, regions) ==
    IF ~smaps_result.ok THEN [ok |-> FALSE, regions |-> regions]
    ELSE [ok |-> TRUE,
          regions |-> [i \in 1..Len(regions) |->
                          EnrichRegion(regions[i], smaps_result.regions)]]

\* SmapsParser::enrich: the bool it returns and the caller's list afterwards
enrich(smaps_file, regions) == EnrichWith(SmapsParser_parse(smaps_file), regions)

\* --------------------------------------------------------- DataCollector
\* a collect_once that returns an empty snapshot when maps cannot be opened
AssembleAlways(pid, use_smaps, time, maps_result, smaps_file) ==
    [ok |-> TRUE,
     snapshot |-> [pid |-> pid, timestamp_ms |-> time,
                   regions |-> IF use_smaps
                               THEN enrich(smaps_file, maps_result.regions).regions
                               ELSE maps_result.regions]]

\* a collect_once that fails when the enrichment fails
AssembleStrict(pid, use_smaps, time, maps_result, smaps_file) ==
    IF ~maps_result.ok \/ (use_smaps /\ ~enrich(smaps_file, maps_result.regions).ok)
    THEN [ok |-> FALSE]
    ELSE [ok |-> TRUE,
          snapshot |-> [pid |-> pid, timestamp_ms |-> time,
                        regions |-> IF use_smaps
                                    THEN enrich(smaps_file, maps_result.regions).regions
                                    ELSE maps_result.regions]]

Assemble(pid, use_smaps, time, maps_result, smaps_file) ==
    IF ~maps_result.ok THEN [ok |-> FALSE]
    ELSE [ok |-> TRUE,
          snapshot |-> [pid |-> pid, timestamp_ms |-> time,
                        regions |-> IF use_smaps
                                    THEN enrich(smaps_file, maps_result.regions).regions
                                    ELSE maps_result.regions]]

\* collect_once: std::nullopt, or the snapshot stamped with the current time
collect_once(pid, use_smaps, time, maps_file, smaps_file) ==
    Assemble(pid, use_smaps, time, MapsParser_parse(maps_file), smaps_file)

\* ------------------------------------------------------------ environment
\* what /proc/<pid>/maps and /proc/<pid>/smaps of the sampled process can
\* hold when they are read; the process changes them at any time
\*   40-50 r-xp 0 8:1 7 /a        (then a line without six fields)
\*   80-c0 rw-p 0 0:0 0  [stack]
MapsText ==
    <<"4", "0", "-", "5", "0", " ", "r", "-", "x", "p", " ", "0", " ", "8",
      ":", "1", " ", "7", " ", "/", "a", "\n", "b", "a", "d", "\n", "8", "0",
      "-", "c", "0", " ", "r", "w", "-", "p", " ", "0", " ", "0", ":", "0",
      " ", "0", " ", " ", "[", "s", "t", "a", "c", "k", "]", "\n">>

\*   40-50 r-xp 0 8:1 7 /a  /  Rss: 4 kB  /  Pss: 2 kB
SmapsText ==
    <<"4", "0", "-", "5", "0", " ", "r", "-", "x", "p", " ", "0", " ", "8",
      ":", "1", " ", "7", " ", "/", "a", "\n", "R", "s", "s", ":", " ", "4",
      " ", "k", "B", "\n", "P", "s", "s", ":", " ", "2", " ", "k", "B", "\n">>

MapsFiles == {NoFile, File(MapsText)}
SmapsFiles == {NoFile, File(SmapsText)}
Pids == {7}

\* ---------------------------------------------------------------- Sampler
Callers == {"c1", "c2"}
Observers == 1..MaxObservers
\* what a callback does when invoked: return, throw a std::exception, or
\* throw something that is not a std::exception
Outcomes == {"returns", "throws_std", "throws_other"}

VARIABLES
    sampler_,     \* DataCollector's std::unique_ptr<Sampler>: FALSE while null;
                  \* the variables of the Sampler below are those of *sampler_
    dropped,      \* history: the callbacks given to DataCollector::on_snapshot
                  \*          while sampler_ was null
    config_,      \* SamplerConfig: pid, use_smaps, max_snapshots
    running_,     \* std::atomic<bool>
    thread_,      \* std::thread: 0 when not joinable, else the thread it owns
    mutex_,       \* 0 when free, else the thread of sample_loop holding it,
                  \* or ReaderLock
    snapshots_,   \* std::vector<ProcessSnapshot>
    callbacks_,   \* std::vector<SnapshotCallback>
    threads,      \* every thread of sample_loop ever spawned: pc and locals
    callers,      \* the threads calling start() and stop(): pc and locals
    now,          \* system_clock, in milliseconds
    aborted,      \* std::terminate has been called
    appended,     \* history: every snapshot pushed, in order
    notified,     \* history: the last snapshot pushed, callbacks_ at the push,
                  \*          and the callbacks invoked for it since, in order
    stop_returned,\* history: a stop() has returned and no start() was called since
    seen          \* the call that returns in this state and what it returns

vars == <<sampler_, dropped, config_, running_, thread_, mutex_, snapshots_, callbacks_, threads,
          callers, now, aborted, appended, notified, stop_returned, seen>>

collector_vars == <<sampler_, dropped>>
sampler_vars == <<running_, thread_, mutex_, snapshots_, callbacks_, threads>>
history_vars == <<appended, notified>>

\* a caller thread: where it is in its call, and its locals; from and to are
\* the numbers of snapshots pushed when its last get_snapshots() was called and
\* when it returned, copy the vector it was returned
Idle == [pc |-> "idle", t |-> 0, was_idle |-> FALSE,
         copied |-> FALSE, copy |-> << >>, from |-> 0, to |-> 0]
NoCall == [op |-> "none"]
NoSnapshot == [pid |-> 0, timestamp_ms |-> 0, regions |-> << >>]
NoListing == [maps |-> NoFile, smaps |-> NoFile]

\* a Sampler that has been constructed
Init ==
    /\ sampler_ = TRUE
    /\ dropped = {}
    /\ config_ \in [pid : Pids, use_smaps : BOOLEAN, max_snapshots : 0..MaxCapacity]
    /\ running_ = FALSE
    /\ thread_ = 0
    /\ mutex_ = 0
    /\ snapshots_ = << >>
    /\ callbacks_ = << >>
    /\ threads = << >>
    /\ callers = [c \in Callers |-> Idle]
    /\ now = 0
    /\ aborted = FALSE
    /\ appended = << >>
    /\ notified = [snapshot |-> NoSnapshot, callbacks |-> << >>, calls |-> << >>]
    /\ stop_returned = FALSE
    /\ seen = NoCall

\* the states of the Sampler's state machine
IdleState == ~running_ /\ thread_ = 0
RunningState == running_ /\ thread_ # 0

NoControlCall == \A d \in Callers : callers[d].pc = "idle"
NoStopCall == \A d \in Callers : callers[d].pc # "stop_join"
Starting == {d \in Callers : callers[d].pc \in {"start_store", "start_spawn"}}

\* a sample_loop thread that has been spawned and has not returned
Live(t) == threads[t].pc # "done"
LiveThreads == {t \in DOMAIN threads : Live(t)}

\* start() without the test of the flag
StartLoadNoCheck(c) ==
    /\ ~aborted
    /\ callers[c].pc = "idle"
    /\ Len(threads) + Cardinality(Starting) < MaxSpawns
    /\ stop_returned' = FALSE
    /\ callers' = [callers EXCEPT ![c].pc = "start_store"]
    /\ seen' = NoCall
    /\ UNCHANGED <<collector_vars, config_, sampler_vars, now, aborted, history_vars>>

\* ---- Sampler::start
\* if (running_.load()) return;
StartLoad(c) ==
    /\ ~aborted
    /\ callers[c].pc = "idle"
    /\ running_ \/ Len(threads) + Cardinality(Starting) < MaxSpawns
    /\ stop_returned' = FALSE
    /\ IF running_
       THEN /\ seen' = [op |-> "start", spawned |-> FALSE]
            /\ UNCHANGED callers
       ELSE /\ callers' = [callers EXCEPT ![c].pc = "start_store"]
            /\ seen' = NoCall
    /\ UNCHANGED <<collector_vars, config_, sampler_vars, now, aborted, history_vars>>

\* a start() that begins with an empty history and no callbacks
StartStoreReset(c) ==
    /\ ~aborted
    /\ callers[c].pc = "start_store"
    /\ running_' = TRUE
    /\ snapshots_' = << >>
    /\ callbacks_' = << >>
    /\ callers' = [callers EXCEPT ![c].pc = "start_spawn"]
    /\ seen' = NoCall
    /\ UNCHANGED <<collector_vars, config_, thread_, mutex_, threads, now,
                   aborted, history_vars, stop_returned>>

\* running_.store(true);
StartStore(c) ==
    /\ ~aborted
    /\ callers[c].pc = "start_store"
    /\ running_' = TRUE
    /\ callers' = [callers EXCEPT ![c].pc = "start_spawn"]
    /\ seen' = NoCall
    /\ UNCHANGED <<collector_vars, config_, thread_, mutex_, snapshots_, callbacks_, threads, now,
                   aborted, history_vars, stop_returned>>

\* std::thread(&Sampler::sample_loop, this): the new thread exists from here
StartSpawn(c) ==
    /\ ~aborted
    /\ callers[c].pc = "start_spawn"
    /\ threads' = Append(threads, [pc |-> "check", snapshot |-> NoSnapshot, i |-> 0,
                                   listing |-> NoListing])
    /\ callers' = [callers EXCEPT ![c].pc = "start_assign", ![c].t = Len(threads) + 1]
    /\ seen' = NoCall
    /\ UNCHANGED <<collector_vars, config_, running_, thread_, mutex_, snapshots_, callbacks_, now,
                   aborted, history_vars, stop_returned>>

\* thread_ = <the new thread>: move assignment to a std::thread that is
\* joinable calls std::terminate; it can be joinable only when another start()
\* runs at the same time, and the unsynchronised writes of the two are a data
\* race, so the handle may as well end up either thread's
StartAssign(c) ==
    /\ ~aborted
    /\ callers[c].pc = "start_assign"
    /\ \/ /\ thread_ = 0
          /\ thread_' = callers[c].t
          /\ UNCHANGED aborted
       \/ /\ thread_ # 0
          /\ \/ aborted' = TRUE /\ UNCHANGED thread_
             \/ thread_' = callers[c].t /\ UNCHANGED aborted
             \/ UNCHANGED <<thread_, aborted>>
    /\ callers' = [callers EXCEPT ![c] = Idle]
    /\ seen' = [op |-> "start", spawned |-> TRUE]
    /\ UNCHANGED <<collector_vars, config_, running_, mutex_, snapshots_, callbacks_, threads, now,
                   history_vars, stop_returned>>

\* ---- Sampler::stop
\* running_.store(false);
StopStore(c) ==
    /\ ~aborted
    /\ callers[c].pc = "idle"
    /\ running_' = FALSE
    /\ callers' = [callers EXCEPT ![c].pc = "stop_join", ![c].was_idle = IdleState]
    /\ stop_returned' = FALSE
    /\ seen' = NoCall
    /\ UNCHANGED <<collector_vars, config_, thread_, mutex_, snapshots_, callbacks_, threads, now,
                   aborted, history_vars>>

\* stop() that joins without asking joinable()
StopJoinUnchecked(c) ==
    /\ ~aborted
    /\ callers[c].pc = "stop_join"
    /\ thread_ # 0
    /\ ~Live(thread_)
    /\ thread_' = 0
    /\ callers' = [callers EXCEPT ![c] = Idle]
    /\ stop_returned' = TRUE
    /\ seen' = [op |-> "stop", joined |-> TRUE, was_idle |-> callers[c].was_idle]
    /\ UNCHANGED <<collector_vars, config_, running_, mutex_, snapshots_, callbacks_, threads, now,
                   aborted, history_vars>>

\* if (thread_.joinable()) thread_.join();  join returns once the thread has
StopJoin(c) ==
    /\ ~aborted
    /\ callers[c].pc = "stop_join"
    /\ thread_ # 0 => ~Live(thread_)
    /\ thread_' = 0
    /\ callers' = [callers EXCEPT ![c] = Idle]
    /\ stop_returned' = TRUE
    /\ seen' = [op |-> "stop", joined |-> thread_ # 0, was_idle |-> callers[c].was_idle]
    /\ UNCHANGED <<collector_vars, config_, running_, mutex_, snapshots_, callbacks_, threads, now,
                   aborted, history_vars>>

\* ---- Sampler::on_snapshot; a callback is registered once, and the callbacks
\* are numbered in the order of their registration
on_snapshot(cb) ==
    /\ ~aborted
    /\ mutex_ = 0
    /\ cb = Len(callbacks_) + 1
    /\ callbacks_' = Append(callbacks_, cb)
    /\ seen' = [op |-> "on_snapshot", cb |-> cb]
    /\ UNCHANGED <<collector_vars, config_, running_, thread_, mutex_, snapshots_, threads, callers,
                   now, aborted, history_vars, stop_returned>>

\* ---- the readers
\* a call that changes nothing and returns result
Returns(result) ==
    /\ ~aborted
    /\ seen' = result
    /\ UNCHANGED <<collector_vars, config_, sampler_vars, callers, now, aborted, history_vars,
                   stop_returned>>

is_running == Returns([op |-> "is_running", flag |-> running_])

get_snapshots ==
    mutex_ = 0 /\ Returns([op |-> "get_snapshots", val |-> snapshots_])

\* a get_latest() that returns the oldest snapshot of the history
GetLatestFront ==
    mutex_ = 0 /\ Returns([op |-> "get_latest",
                           val |-> IF snapshots_ = << >> THEN << >>
                                   ELSE <<snapshots_[1]>>])

\* a get_latest() that does not take the mutex
GetLatestUnlocked ==
    Returns([op |-> "get_latest",
             val |-> IF snapshots_ = << >> THEN << >>
                     ELSE <<snapshots_[Len(snapshots_)]>>])

\* std::optional<ProcessSnapshot>: << >> is std::nullopt
get_latest ==
    mutex_ = 0 /\ Returns([op |-> "get_latest",
                           val |-> IF snapshots_ = << >> THEN << >>
                                   ELSE <<snapshots_[Len(snapshots_)]>>])

\* ---- Sampler::get_snapshots, step by step, called by thread c
\* the mutex held by a thread that is not a thread of sample_loop
ReaderLock == MaxSpawns + 1

ReadCall(c) ==
    /\ ~aborted
    /\ callers[c].pc = "idle"
    /\ callers' = [callers EXCEPT ![c] = [Idle EXCEPT !.pc = "read_lock",
                                                      !.from = Len(appended)]]
    /\ seen' = NoCall
    /\ UNCHANGED <<collector_vars, config_, sampler_vars, now, aborted, history_vars, stop_returned>>

\* std::lock_guard<std::mutex> lock(mutex_);
ReadLock(c) ==
    /\ ~aborted
    /\ callers[c].pc = "read_lock"
    /\ mutex_ = 0
    /\ mutex_' = ReaderLock
    /\ callers' = [callers EXCEPT ![c].pc = "read_copy"]
    /\ seen' = NoCall
    /\ UNCHANGED <<collector_vars, config_, running_, thread_, snapshots_, callbacks_, threads, now,
                   aborted, history_vars, stop_returned>>

\* return snapshots_;  the vector returned is a copy, made before the
\* lock_guard is destroyed
ReadCopy(c) ==
    /\ ~aborted
    /\ callers[c].pc = "read_copy"
    /\ callers' = [callers EXCEPT ![c].pc = "read_unlock", ![c].copy = snapshots_]
    /\ seen' = NoCall
    /\ UNCHANGED <<collector_vars, config_, sampler_vars, now, aborted, history_vars, stop_returned>>

ReadUnlock(c) ==
    /\ ~aborted
    /\ callers[c].pc = "read_unlock"
    /\ mutex_' = 0
    /\ callers' = [callers EXCEPT ![c].pc = "idle", ![c].copied = TRUE,
                                  ![c].to = Len(appended)]
    /\ seen' = [op |-> "get_snapshots", val |-> callers[c].copy]
    /\ UNCHANGED <<collector_vars, config_, running_, thread_, snapshots_, callbacks_, threads, now,
                   aborted, history_vars, stop_returned>>

\* ---- Sampler::take_snapshot
take_snapshot(config, time, smaps_file) ==
    [pid |-> config.pid,
     timestamp_ms |-> time,
     regions |-> IF config.use_smaps THEN enrich(smaps_file, << >>).regions ELSE << >>]

\* ---- Sampler::sample_loop, one thread t of it
\* a test of the flag that does not see it cleared
LoopCheckDeaf(t) ==
    /\ ~aborted
    /\ t \in DOMAIN threads
    /\ threads[t].pc = "check"
    /\ now < MaxTime
    /\ threads' = [threads EXCEPT ![t].pc = "take"]
    /\ seen' = NoCall
    /\ UNCHANGED <<collector_vars, config_, running_, thread_, mutex_, snapshots_, callbacks_, callers,
                   now, aborted, history_vars, stop_returned>>

\* while (running_.load())
LoopCheck(t) ==
    /\ ~aborted
    /\ t \in DOMAIN threads
    /\ threads[t].pc = "check"
    /\ running_ => now < MaxTime
    /\ threads' = [threads EXCEPT ![t].pc = IF running_ THEN "take" ELSE "done"]
    /\ seen' = NoCall
    /\ UNCHANGED <<collector_vars, config_, running_, thread_, mutex_, snapshots_, callbacks_, callers,
                   now, aborted, history_vars, stop_returned>>

\* a loop that gives up at a tick where /proc/<pid>/maps cannot be opened
LoopTakeGiveUp(t) ==
    /\ ~aborted
    /\ t \in DOMAIN threads
    /\ threads[t].pc = "take"
    /\ \E maps \in MapsFiles, smaps \in SmapsFiles :
          threads' = [threads EXCEPT
              ![t].pc = IF maps.is_open THEN "lock" ELSE "done",
              ![t].snapshot = take_snapshot(config_, now, smaps),
              ![t].listing = [maps |-> maps, smaps |-> smaps]]
    /\ now' = now + 1
    /\ seen' = NoCall
    /\ UNCHANGED <<collector_vars, config_, running_, thread_, mutex_, snapshots_, callbacks_, callers,
                   aborted, history_vars, stop_returned>>

\* auto snapshot = take_snapshot();  listing is what the two /proc files hold
\* at this tick; the clock moves on between two samples
LoopTake(t) ==
    /\ ~aborted
    /\ t \in DOMAIN threads
    /\ threads[t].pc = "take"
    /\ \E maps \in MapsFiles, smaps \in SmapsFiles :
          threads' = [threads EXCEPT
              ![t].pc = "lock",
              ![t].snapshot = take_snapshot(config_, now, smaps),
              ![t].listing = [maps |-> maps, smaps |-> smaps]]
    /\ now' = now + 1
    /\ seen' = NoCall
    /\ UNCHANGED <<collector_vars, config_, running_, thread_, mutex_, snapshots_, callbacks_, callers,
                   aborted, history_vars, stop_returned>>

\* a sample_loop that does not take the mutex
LoopLockFree(t) ==
    /\ ~aborted
    /\ t \in DOMAIN threads
    /\ threads[t].pc = "lock"
    /\ threads' = [threads EXCEPT ![t].pc = "evict", ![t].listing = NoListing]
    /\ seen' = NoCall
    /\ UNCHANGED <<collector_vars, config_, running_, thread_, mutex_, snapshots_, callbacks_, callers,
                   now, aborted, history_vars, stop_returned>>

\* a sample_loop that looks at the flag again before it takes the mutex and
\* drops the sample when the flag is clear
LoopLockCancellable(t) ==
    /\ ~aborted
    /\ t \in DOMAIN threads
    /\ threads[t].pc = "lock"
    /\ running_ => mutex_ = 0
    /\ mutex_' = IF running_ THEN t ELSE mutex_
    /\ threads' = [threads EXCEPT ![t].pc = IF running_ THEN "evict" ELSE "done",
                                  ![t].listing = NoListing]
    /\ seen' = NoCall
    /\ UNCHANGED <<collector_vars, config_, running_, thread_, snapshots_, callbacks_, callers, now,
                   aborted, history_vars, stop_returned>>

\* std::lock_guard<std::mutex> lock(mutex_);
LoopLock(t) ==
    /\ ~aborted
    /\ t \in DOMAIN threads
    /\ threads[t].pc = "lock"
    /\ mutex_ = 0
    /\ mutex_' = t
    /\ threads' = [threads EXCEPT ![t].pc = "evict", ![t].listing = NoListing]
    /\ seen' = NoCall
    /\ UNCHANGED <<collector_vars, config_, running_, thread_, snapshots_, callbacks_, callers, now,
                   aborted, history_vars, stop_returned>>

\* eviction of the newest snapshot instead of the oldest
LoopEvictNewest(t) ==
    /\ ~aborted
    /\ t \in DOMAIN threads
    /\ threads[t].pc = "evict"
    /\ snapshots_' = IF config_.max_snapshots > 0 /\ Len(snapshots_) >= config_.max_snapshots
                     THEN SubSeq(snapshots_, 1, Len(snapshots_) - 1) ELSE snapshots_
    /\ threads' = [threads EXCEPT ![t].pc = "push"]
    /\ seen' = NoCall
    /\ UNCHANGED <<collector_vars, config_, running_, thread_, mutex_, callbacks_, callers, now,
                   aborted, history_vars, stop_returned>>

\* eviction one insertion too late: size() > max_snapshots
LoopEvictLate(t) ==
    /\ ~aborted
    /\ t \in DOMAIN threads
    /\ threads[t].pc = "evict"
    /\ snapshots_' = IF config_.max_snapshots > 0 /\ Len(snapshots_) > config_.max_snapshots
                     THEN Tail(snapshots_) ELSE snapshots_
    /\ threads' = [threads EXCEPT ![t].pc = "push"]
    /\ seen' = NoCall
    /\ UNCHANGED <<collector_vars, config_, running_, thread_, mutex_, callbacks_, callers, now,
                   aborted, history_vars, stop_returned>>

\* if (max_snapshots > 0 && size() >= max_snapshots) erase(begin());
LoopEvict(t) ==
    /\ ~aborted
    /\ t \in DOMAIN threads
    /\ threads[t].pc = "evict"
    /\ snapshots_' = IF config_.max_snapshots > 0 /\ Len(snapshots_) >= config_.max_snapshots
                     THEN Tail(snapshots_) ELSE snapshots_
    /\ threads' = [threads EXCEPT ![t].pc = "push"]
    /\ seen' = NoCall
    /\ UNCHANGED <<collector_vars, config_, running_, thread_, mutex_, callbacks_, callers, now,
                   aborted, history_vars, stop_returned>>

\* snapshots_.push_back(snapshot);
LoopPush(t) ==
    /\ ~aborted
    /\ t \in DOMAIN threads
    /\ threads[t].pc = "push"
    /\ snapshots_' = Append(snapshots_, threads[t].snapshot)
    /\ appended' = Append(appended, threads[t].snapshot)
    /\ notified' = [snapshot |-> threads[t].snapshot, callbacks |-> callbacks_,
                    calls |-> << >>]
    /\ threads' = [threads EXCEPT ![t].pc = "notify", ![t].i = 1]
    /\ seen' = NoCall
    /\ UNCHANGED <<collector_vars, config_, running_, thread_, mutex_, callbacks_, callers, now,
                   aborted, stop_returned>>

\* for (const auto& cb : callbacks_) try { cb(snapshot); }
\*                                   catch (const std::exception& e) { log }
\* what is not a std::exception leaves the thread function: std::terminate
LoopNotify(t) ==
    /\ ~aborted
    /\ t \in DOMAIN threads
    /\ threads[t].pc = "notify"
    /\ threads[t].i <= Len(callbacks_)
    /\ notified' = [notified EXCEPT
                       !.calls = Append(@, [snapshot |-> threads[t].snapshot,
                                            cb |-> callbacks_[threads[t].i]])]
    /\ \E outcome \in Outcomes :
          IF outcome = "throws_other"
          THEN aborted' = TRUE /\ UNCHANGED threads
          ELSE threads' = [threads EXCEPT ![t].i = @ + 1] /\ UNCHANGED aborted
    /\ seen' = NoCall
    /\ UNCHANGED <<collector_vars, config_, running_, thread_, mutex_, snapshots_, callbacks_, callers,
                   now, appended, stop_returned>>

\* the end of the block: the lock_guard releases the mutex
LoopUnlock(t) ==
    /\ ~aborted
    /\ t \in DOMAIN threads
    /\ threads[t].pc = "notify"
    /\ threads[t].i > Len(callbacks_)
    /\ mutex_' = 0
    /\ threads' = [threads EXCEPT ![t].pc = "sleep"]
    /\ seen' = NoCall
    /\ UNCHANGED <<collector_vars, config_, running_, thread_, snapshots_, callbacks_, callers, now,
                   aborted, history_vars, stop_returned>>

\* a loop that tests the flag at its end only: after the sleep the next
\* sample is taken
LoopSleepThenTake(t) ==
    /\ ~aborted
    /\ t \in DOMAIN threads
    /\ threads[t].pc = "sleep"
    /\ threads' = [threads EXCEPT ![t].pc = IF now < MaxTime THEN "take" ELSE "check"]
    /\ seen' = NoCall
    /\ UNCHANGED <<collector_vars, config_, running_, thread_, mutex_, snapshots_, callbacks_, callers,
                   now, aborted, history_vars, stop_returned>>

\* while (running_.load() && now() < deadline) sleep_for(50ms);  the loop is
\* left when the flag is clear or, at some time of its own, when the deadline
\* has passed
LoopSleep(t) ==
    /\ ~aborted
    /\ t \in DOMAIN threads
    /\ threads[t].pc = "sleep"
    /\ threads' = [threads EXCEPT ![t].pc = "check"]
    /\ seen' = NoCall
    /\ UNCHANGED <<collector_vars, config_, running_, thread_, mutex_, snapshots_, callbacks_, callers,
                   now, aborted, history_vars, stop_returned>>

Background ==
    \/ \E t \in 1..MaxSpawns : LoopCheck(t) \/ LoopTake(t) \/ LoopLock(t) \/ LoopEvict(t)
    \/ \E t \in 1..MaxSpawns : LoopPush(t) \/ LoopNotify(t) \/ LoopUnlock(t) \/ LoopSleep(t)
    \/ \E cb \in Observers : on_snapshot(cb)
    \/ is_running \/ get_snapshots \/ get_latest

\* start() and stop() called one at a time, as the Sampler asks of its callers:
\* the calls of one thread
Controller == {"c1"}

Next ==
    \/ \E c \in Controller : StartLoad(c) \/ StopStore(c)
    \/ \E c \in Controller : StartStore(c) \/ StartSpawn(c) \/ StartAssign(c) \/ StopJoin(c)
    \/ Background

Spec == Init /\ [][Next]_vars

\* start() called by several threads at once; stop() still on its own, and
\* one callback registered before the first loop is spawned
NextConc ==
    \/ \E c \in Callers : NoStopCall /\ StartLoad(c)
    \/ \E c \in Callers : NoControlCall /\ StopStore(c)
    \/ \E c \in Callers : StartStore(c) \/ StartSpawn(c) \/ StartAssign(c) \/ StopJoin(c)
    \/ \E t \in 1..MaxSpawns : LoopCheck(t) \/ LoopTake(t) \/ LoopLock(t) \/ LoopEvict(t)
    \/ \E t \in 1..MaxSpawns : LoopPush(t) \/ LoopNotify(t) \/ LoopUnlock(t) \/ LoopSleep(t)
    \/ \E cb \in Observers : callbacks_ = << >> /\ threads = << >> /\ on_snapshot(cb)
    \/ is_running

SpecConc == Init /\ [][NextConc]_vars

\* one thread starts and stops the Sampler, another calls get_snapshots()
\* again and again while the loop runs
Readers == {"c2"}

NextRead ==
    \/ \E c \in Controller : StartLoad(c) \/ StopStore(c)
    \/ \E c \in Controller : StartStore(c) \/ StartSpawn(c) \/ StartAssign(c) \/ StopJoin(c)
    \/ \E t \in 1..MaxSpawns : LoopCheck(t) \/ LoopTake(t) \/ LoopLock(t) \/ LoopEvict(t)
    \/ \E t \in 1..MaxSpawns : LoopPush(t) \/ LoopNotify(t) \/ LoopUnlock(t) \/ LoopSleep(t)
    \/ \E cb \in Observers : callbacks_ = << >> /\ threads = << >> /\ on_snapshot(cb)
    \/ \E c \in Readers : ReadCall(c) \/ ReadLock(c) \/ ReadCopy(c) \/ ReadUnlock(c)

SpecRead == Init /\ [][NextRead]_vars

\* the scheduler runs a thread of sample_loop that can take a step: a thread
\* that has taken its snapshot gets the mutex when it is free, and goes through
\* the block it guards
LoopFairness ==
    \A t \in 1..MaxSpawns :
        /\ WF_vars(LoopLock(t)) /\ WF_vars(LoopEvict(t)) /\ WF_vars(LoopPush(t))
        /\ WF_vars(LoopNotify(t)) /\ WF_vars(LoopUnlock(t))

\* the Sampler started and stopped, its loop and its callbacks, without readers
NextLoop ==
    \/ \E c \in Controller : StartLoad(c) \/ StopStore(c)
    \/ \E c \in Controller : StartStore(c) \/ StartSpawn(c) \/ StartAssign(c) \/ StopJoin(c)
    \/ \E t \in 1..MaxSpawns : LoopCheck(t) \/ LoopTake(t) \/ LoopLock(t) \/ LoopEvict(t)
    \/ \E t \in 1..MaxSpawns : LoopPush(t) \/ LoopNotify(t) \/ LoopUnlock(t) \/ LoopSleep(t)
    \/ \E cb \in Observers : on_snapshot(cb)

\* a Sampler whose history is unbounded or holds one snapshot
InitFair == Init /\ config_.max_snapshots <= 1

SpecFair == InitFair /\ [][NextLoop]_vars /\ LoopFairness

\* the thread of sample_loop and the thread in join() are scheduled at every
\* statement: the loop also takes its sample, leaves its sleep and tests the
\* flag, and join() returns once the thread has ended
StopFairness ==
    /\ LoopFairness
    /\ \A t \in 1..MaxSpawns :
          WF_vars(LoopTake(t)) /\ WF_vars(LoopSleep(t)) /\ WF_vars(LoopCheck(t))
    /\ \A c \in Controller : WF_vars(StopJoin(c))

\* a Sampler whose history holds one snapshot, so that every push after the
\* first evicts, and that does not read smaps
InitStop == Init /\ ~config_.use_smaps /\ config_.max_snapshots = 1

SpecStop == InitStop /\ [][NextLoop]_vars /\ StopFairness

\* cb(snapshot) with a callback that never returns: the thread stays in the
\* call, inside the block that holds the mutex
LoopNotifyHang(t) ==
    /\ ~aborted
    /\ t \in DOMAIN threads
    /\ threads[t].pc = "notify"
    /\ threads[t].i <= Len(callbacks_)
    /\ notified' = [notified EXCEPT
                       !.calls = Append(@, [snapshot |-> threads[t].snapshot,
                                            cb |-> callbacks_[threads[t].i]])]
    /\ threads' = [threads EXCEPT ![t].pc = "hung"]
    /\ seen' = NoCall
    /\ UNCHANGED <<collector_vars, config_, running_, thread_, mutex_, snapshots_, callbacks_, callers,
                   now, aborted, appended, stop_returned>>

\* the Sampler with callbacks that return, throw or never return
NextHang ==
    \/ NextLoop
    \/ \E t \in 1..MaxSpawns : LoopNotifyHang(t)

SpecHang == InitStop /\ [][NextHang]_vars /\ StopFairness

\* ---- DataCollector: the Sampler behind sampler_
\* a DataCollector that has been constructed: sampler_ is null; the history
\* of its samplers is unbounded or holds one snapshot, and smaps is not read
InitCollector ==
    /\ sampler_ = FALSE
    /\ dropped = {}
    /\ config_ \in [pid : Pids, use_smaps : {FALSE}, max_snapshots : {0, 1}]
    /\ running_ = FALSE
    /\ thread_ = 0
    /\ mutex_ = 0
    /\ snapshots_ = << >>
    /\ callbacks_ = << >>
    /\ threads = << >>
    /\ callers = [c \in Callers |-> Idle]
    /\ now = 0
    /\ aborted = FALSE
    /\ appended = << >>
    /\ notified = [snapshot |-> NoSnapshot, callbacks |-> << >>, calls |-> << >>]
    /\ stop_returned = FALSE
    /\ seen = NoCall

\* callbacks_ of a Sampler made with the callbacks that were dropped before
NewCallbacksKept ==
    CHOOSE s \in [1..Cardinality(dropped) -> dropped] :
        \A i, j \in 1..Cardinality(dropped) : s[i] = s[j] => i = j

\* callbacks_ of a Sampler that std::make_unique<Sampler>(sc) has made
NewCallbacks == << >>

\* DataCollector::on_snapshot: if (sampler_) sampler_->on_snapshot(cb); the
\* callbacks given without a sampler are numbered from MaxObservers down, and
\* a callback is given once
DC_on_snapshot(cb) ==
    IF sampler_
    THEN cb \notin dropped /\ on_snapshot(cb)
    ELSE /\ ~aborted
         /\ cb = MaxObservers - Cardinality(dropped)
         /\ dropped' = dropped \cup {cb}
         /\ seen' = [op |-> "dc_on_snapshot", cb |-> cb, forwarded |-> FALSE]
         /\ UNCHANGED <<sampler_, config_, sampler_vars, callers, now, aborted,
                        history_vars, stop_returned>>

\* a start_sampling that starts the Sampler it has again, when it has one
DC_start_sampling_again(c) ==
    /\ ~aborted
    /\ callers[c].pc = "idle"
    /\ (sampler_ /\ running_) \/ Len(threads) < MaxSpawns
    /\ stop_returned' = FALSE
    /\ IF sampler_ /\ running_
       THEN /\ seen' = [op |-> "start_sampling", spawned |-> FALSE]
            /\ UNCHANGED <<sampler_, snapshots_, callbacks_, thread_, callers>>
       ELSE /\ sampler_' = TRUE
            /\ snapshots_' = IF sampler_ THEN snapshots_ ELSE << >>
            /\ callbacks_' = IF sampler_ THEN callbacks_ ELSE NewCallbacks
            /\ thread_' = 0
            /\ callers' = [callers EXCEPT ![c].pc = "start_store"]
            /\ seen' = NoCall
    /\ UNCHANGED <<dropped, config_, running_, mutex_, threads, now, aborted,
                   history_vars>>

\* DataCollector::start_sampling: nothing while the sampler runs; else a new
\* Sampler takes the place of the old one, which is not running and whose
\* thread has been joined, and start() of the new one finds running_ false
DC_start_sampling(c) ==
    /\ ~aborted
    /\ callers[c].pc = "idle"
    /\ (sampler_ /\ running_) \/ Len(threads) < MaxSpawns
    /\ stop_returned' = FALSE
    /\ IF sampler_ /\ running_
       THEN /\ seen' = [op |-> "start_sampling", spawned |-> FALSE]
            /\ UNCHANGED <<sampler_, snapshots_, callbacks_, thread_, callers>>
       ELSE /\ sampler_' = TRUE
            /\ snapshots_' = << >>
            /\ callbacks_' = NewCallbacks
            /\ thread_' = 0
            /\ callers' = [callers EXCEPT ![c].pc = "start_store"]
            /\ seen' = NoCall
    /\ UNCHANGED <<dropped, config_, running_, mutex_, threads, now, aborted,
                   history_vars>>

\* DataCollector::stop_sampling: if (sampler_) sampler_->stop();
DC_stop_sampling(c) ==
    IF sampler_
    THEN StopStore(c)
    ELSE /\ ~aborted
         /\ callers[c].pc = "idle"
         /\ seen' = [op |-> "stop_sampling", joined |-> FALSE]
         /\ UNCHANGED <<collector_vars, config_, sampler_vars, callers, now, aborted,
                        history_vars, stop_returned>>

\* DataCollector::get_all_snapshots: if (!sampler_) return {};
DC_get_all_snapshots ==
    IF sampler_
    THEN mutex_ = 0 /\ Returns([op |-> "get_all_snapshots", sampler |-> TRUE,
                                val |-> snapshots_])
    ELSE Returns([op |-> "get_all_snapshots", sampler |-> FALSE, val |-> << >>])

\* DataCollector::get_latest_snapshot: if (!sampler_) return std::nullopt;
DC_get_latest_snapshot ==
    IF sampler_
    THEN mutex_ = 0 /\ Returns([op |-> "get_latest_snapshot", sampler |-> TRUE,
                                val |-> IF snapshots_ = << >> THEN << >>
                                        ELSE <<snapshots_[Len(snapshots_)]>>])
    ELSE Returns([op |-> "get_latest_snapshot", sampler |-> FALSE, val |-> << >>])

\* the calls of a DataCollector by one thread, and the loop of its sampler
NextCollector ==
    \/ \E cb \in Observers : DC_on_snapshot(cb)
    \/ \E c \in Controller : DC_start_sampling(c) \/ DC_stop_sampling(c)
    \/ \E c \in Controller : StartStore(c) \/ StartSpawn(c) \/ StartAssign(c) \/ StopJoin(c)
    \/ DC_get_all_snapshots \/ DC_get_latest_snapshot
    \/ \E t \in 1..MaxSpawns : LoopCheck(t) \/ LoopTake(t) \/ LoopLock(t) \/ LoopEvict(t)
    \/ \E t \in 1..MaxSpawns : LoopPush(t) \/ LoopNotify(t) \/ LoopUnlock(t) \/ LoopSleep(t)

SpecCollector == InitCollector /\ [][NextCollector]_vars

\* ------------------------------------------------- the parsers, called alone
\* The text of a line of /proc/<pid>/maps as the kernel writes it for given
\* field values: "start-end perms offset dev inode" and, padded, the pathname.
RECURSIVE ToDigits(_, _)
ToDigits(v, base) ==
    IF v < base THEN <<HexDigits[v + 1]>>
    ELSE Append(ToDigits(v \div base, base), HexDigits[(v % base) + 1])

\* the white space of a line: before the first field, between two fields,
\* between the inode and the pathname, and at the end of the line
Layout(lead, sep, pad, trail) == [lead |-> lead, sep |-> sep, pad |-> pad, trail |-> trail]
KernelLayout == Layout(Str0, <<" ">>, <<" ", " ", " ">>, Str0)
Layouts ==
    {Layout(lead, sep, pad, trail) :
        lead \in {Str0, <<" ">>}, sep \in {<<" ">>, <<"\t">>, <<" ", " ">>},
        pad \in {<<" ">>, <<" ", " ", " ">>}, trail \in {Str0, <<" ">>}}

MapsLine(v, layout, label) ==
    layout.lead \o ToDigits(v.start, 16) \o <<"-">> \o ToDigits(v.end, 16)
    \o layout.sep \o v.perms \o layout.sep \o ToDigits(v.offset, 16)
    \o layout.sep \o v.dev \o layout.sep \o ToDigits(v.inode, 10)
    \o (IF label = Str0 THEN Str0 ELSE layout.pad \o label) \o layout.trail

\* start and end of a mapping; the last pair is a line whose end is below its
\* start
AddressPairs == {<<64, 80>>, <<64, 3072>>, <<2048, 3072>>, <<0, 4095>>, <<80, 64>>}
PermsSet == {<<"r", "-", "x", "p">>, <<"r", "w", "-", "p">>}
Labels == {Str0, <<"/", "a">>, <<"[", "s", "t", "a", "c", "k", "]">>, <<"/", "a", " ", "b">>, <<"/", "l", ".", "s", "o">>}
FieldValues ==
    {[start |-> a[1], end |-> a[2], perms |-> p, offset |-> o, dev |-> <<"8", ":", "1">>,
      inode |-> n] : a \in AddressPairs, p \in PermsSet, o \in {0, 16}, n \in {0, 7}}

\* lines that do not supply six fields
BadLines == {<<"b", "a", "d">>, <<"4", "0", "-", "5", "0", " ", "r", "-", "x", "p">>, <<" ">>}

\* the calls of the pure functions: seen records the arguments and the result
\* (one call in a behaviour: a call does not depend on the calls before it)
Fresh == seen.op = "none"
Quiet == UNCHANGED <<collector_vars, config_, sampler_vars, callers, now, aborted, history_vars,
                     stop_returned>>

Call_parse_line ==
    /\ Fresh
    /\ \/ \E v \in FieldValues, layout \in Layouts, label \in Labels :
             seen' = [op |-> "parse_line", given |-> TRUE, fields |-> v,
                      layout |-> layout, label |-> label,
                      line |-> MapsLine(v, layout, label),
                      region |-> parse_line(MapsLine(v, layout, label))]
       \/ \E line \in BadLines :
             seen' = [op |-> "parse_line", given |-> FALSE, line |-> line,
                      region |-> parse_line(line)]
    /\ Quiet

\* a text of several lines: each item is a line, that supplies six fields
\* (good, with the values it was written from) or does not
GoodItem(v, label) == [good |-> TRUE, fields |-> v, label |-> label,
                       line |-> MapsLine(v, KernelLayout, label)]
BadItem(line) == [good |-> FALSE, line |-> line]
Items ==
    {GoodItem([start |-> 64, end |-> 80, perms |-> <<"r", "-", "x", "p">>, offset |-> 0,
               dev |-> <<"8", ":", "1">>, inode |-> 7], <<"/", "a">>),
     GoodItem([start |-> 2048, end |-> 3072, perms |-> <<"r", "w", "-", "p">>, offset |-> 0,
               dev |-> <<"0", ":", "0">>, inode |-> 0], Str0),
     BadItem(<<"b", "a", "d">>), BadItem(<<"4", "0", "-", "5", "0", " ", "r", "-", "x", "p">>), BadItem(Str0)}
ItemLists == UNION {[1..n -> Items] : n \in 0..MaxLines}

RECURSIVE JoinLines(_)
JoinLines(items) ==
    IF items = << >> THEN Str0
    ELSE IF Len(items) = 1 THEN items[1].line
    ELSE items[1].line \o <<"\n">> \o JoinLines(Tail(items))

Content(items, newline) == JoinLines(items) \o (IF newline THEN <<"\n">> ELSE Str0)

Call_parse_from_string ==
    /\ Fresh
    /\ Quiet
    /\ \E items \in ItemLists, newline \in BOOLEAN :
           seen' = [op |-> "parse_from_string", items |-> items,
                    content |-> Content(items, newline),
                    regions |-> MapsParser_parse_from_string(Content(items, newline))]

ClassifyLabels ==
    {Str0, <<"[", "h", "e", "a", "p", "]">>, <<"[", "s", "t", "a", "c", "k", "]">>, <<"[", "s", "t", "a", "c", "k", ":", "9", "]">>, <<"/", "[", "s", "t", "a", "c", "k">>, <<"[", "v", "d", "s", "o", "]">>, <<"[", "v", "v", "a", "r", "]">>, <<"[", "v", "s", "y", "s", "c", "a", "l", "l", "]">>,
     <<"/", "a">>, <<"/", "l", ".", "s", "o">>, <<"/", "l", ".", "s", "o", ".", "6">>, <<"[", "a", "n", "o", "n", "]">>, <<"l", ".", "s", "o">>, <<"[", "h", "e", "a", "p", "]", "x">>}
ClassifyPerms == {<<"r", "-", "x", "p">>, <<"r", "w", "-", "p">>, <<"r", "w", "x", "p">>, <<"r", "-", "x">>, <<"r", "w">>, Str0}

Call_classify_region ==
    /\ Fresh
    /\ Quiet
    /\ \E pathname \in ClassifyLabels, permissions \in ClassifyPerms :
           seen' = [op |-> "classify_region", pathname |-> pathname,
                    permissions |-> permissions,
                    type |-> classify_region(pathname, permissions)]

\* if (!maps_result) return std::nullopt; ... if (config_.use_smaps) enrich(...)
EnrichAttempted(use_smaps, maps_result) == maps_result.ok /\ use_smaps

\* /proc/<pid>/maps may also be readable and hold no mapping
CollectMapsFiles == MapsFiles \cup {File(Str0)}

Call_collect_once ==
    /\ Fresh
    /\ Quiet
    /\ \E pid \in Pids, use_smaps \in BOOLEAN, time \in 0..MaxTime,
       maps \in CollectMapsFiles, smaps \in SmapsFiles :
           seen' = [op |-> "collect_once", pid |-> pid, use_smaps |-> use_smaps,
                    time |-> time, maps |-> maps, smaps |-> smaps,
                    result |-> collect_once(pid, use_smaps, time, maps, smaps),
                    enrich_called |-> EnrichAttempted(use_smaps, MapsParser_parse(maps))]

\* ---- the lines of /proc/<pid>/smaps
\* a detail line as the kernel writes it: "Key:", blanks, the number, " kB"
DetailLine(key, gap, value) ==
    key \o <<":">> \o gap \o ToDigits(value, 10) \o <<" ", "k", "B">>

DetailKeys == {Key_Size, Key_Rss, Key_Pss, Key_Shared_Clean, Key_Shared_Dirty,
               Key_Private_Clean, Key_Private_Dirty, Key_Swap}
\* keys that are none of these: another case, a blank before, another name
OtherKeys == {<<"r", "s", "s">>, <<"S", "W", "A", "P">>, <<" ", "R", "s", "s">>, <<"R", "e", "f", "e", "r", "e", "n", "c", "e", "d">>}
DetailGaps == {Str0, <<" ">>, <<"\t">>, <<" ", " ", " ">>}
DetailValues == {0, 4, 132}
\* lines without a colon, and lines without a number after the colon
NoColonLines == {<<"R", "s", "s", " ", "4", " ", "k", "B">>, <<"R", "s", "s">>}
NoNumberLines == {<<"R", "s", "s", ":", " ", "k", "B">>, <<"V", "m", "F", "l", "a", "g", "s", ":", " ", "r", "d", " ", "e", "x">>}

\* the regions a detail line is applied to: one as parse_line returns it, one
\* with every detail field set
PlainRegion ==
    parse_line(MapsLine([start |-> 64, end |-> 80, perms |-> <<"r", "-", "x", "p">>, offset |-> 0,
                         dev |-> <<"8", ":", "1">>, inode |-> 7], KernelLayout, <<"/", "a">>)).region
DetailedRegion ==
    [PlainRegion EXCEPT !.size_kb = 9, !.rss_kb = 1, !.pss_kb = 2,
                        !.shared_clean_kb = 3, !.shared_dirty_kb = 5,
                        !.private_clean_kb = 6, !.private_dirty_kb = 7,
                        !.swap_kb = 8, !.has_smaps_data = TRUE]
DetailRegions == {PlainRegion, DetailedRegion}

Call_apply_detail_line ==
    /\ Fresh
    /\ Quiet
    /\ \E region \in DetailRegions :
          \/ \E key \in DetailKeys \cup OtherKeys, gap \in DetailGaps,
                value \in DetailValues :
                seen' = [op |-> "apply_detail_line", given |-> TRUE, key |-> key,
                         value |-> value, line |-> DetailLine(key, gap, value),
                         region |-> region,
                         result |-> apply_detail_line(DetailLine(key, gap, value), region)]
          \/ \E line \in NoColonLines \cup NoNumberLines :
                seen' = [op |-> "apply_detail_line", given |-> FALSE, line |-> line,
                         region |-> region,
                         result |-> apply_detail_line(line, region)]

\* a text of smaps: each item is a header line (a line of maps), a detail
\* line of a key and a value, or a line that is neither
HeaderItem(v, label) == [kind |-> "header", line |-> MapsLine(v, KernelLayout, label),
                         key |-> Str0, value |-> 0]
DetailItem(key, value) == [kind |-> "detail", line |-> DetailLine(key, <<" ", " ">>, value),
                           key |-> key, value |-> value]
OtherItem(line) == [kind |-> "other", line |-> line, key |-> Str0, value |-> 0]
SmapsItems ==
    {HeaderItem([start |-> 64, end |-> 80, perms |-> <<"r", "-", "x", "p">>, offset |-> 0,
                 dev |-> <<"8", ":", "1">>, inode |-> 7], <<"/", "a">>),
     HeaderItem([start |-> 2048, end |-> 3072, perms |-> <<"r", "w", "-", "p">>, offset |-> 0,
                 dev |-> <<"0", ":", "0">>, inode |-> 0], Str0),
     DetailItem(Key_Rss, 132), DetailItem(Key_Rss, 4), DetailItem(Key_Swap, 8),
     OtherItem(<<"4", "0", "-", "5", "0", " ", "r", "-", "x", "p">>), OtherItem(Str0)}
SmapsItemLists == UNION {[1..n -> SmapsItems] : n \in 0..MaxLines}

\* the items from the first header on
RECURSIVE DropPrelude(_)
DropPrelude(items) ==
    IF items = << >> THEN << >>
    ELSE IF Head(items).kind = "header" THEN items
    ELSE DropPrelude(Tail(items))

Call_smaps_parse_from_string ==
    /\ Fresh
    /\ Quiet
    /\ \E items \in SmapsItemLists :
           seen' = [op |-> "smaps_parse_from_string", items |-> items,
                    content |-> Content(items, TRUE),
                    regions |-> SmapsParser_parse_from_string(Content(items, TRUE)),
                    without |-> SmapsParser_parse_from_string(
                                    Content(DropPrelude(items), TRUE))]

\* ---- SmapsParser::enrich
Header64 == HeaderItem([start |-> 64, end |-> 80, perms |-> <<"r", "-", "x", "p">>, offset |-> 0,
                        dev |-> <<"8", ":", "1">>, inode |-> 7], <<"/", "a">>)
Header2048 == HeaderItem([start |-> 2048, end |-> 3072, perms |-> <<"r", "w", "-", "p">>, offset |-> 0,
                          dev |-> <<"0", ":", "0">>, inode |-> 0], Str0)

\* /proc/<pid>/smaps: not there, empty, one entry, two entries, and two
\* entries of one start address
EnrichSmapsFiles ==
    {NoFile, File(Str0), File(SmapsText),
     File(Content(<<Header64, DetailItem(Key_Rss, 132), DetailItem(Key_Swap, 8),
                    Header2048, DetailItem(Key_Rss, 4)>>, TRUE)),
     File(Content(<<Header64, DetailItem(Key_Rss, 4),
                    Header64, DetailItem(Key_Rss, 132)>>, TRUE))}

\* the caller's regions: as parse_line returns them or with detail fields
\* set, at start addresses the listings have and at one they do not have
RegionAt(start, end) ==
    parse_line(MapsLine([start |-> start, end |-> end, perms |-> <<"r", "w", "-", "p">>, offset |-> 0,
                         dev |-> <<"0", ":", "0">>, inode |-> 0], KernelLayout, Str0)).region
EnrichRegions ==
    {PlainRegion, DetailedRegion, RegionAt(2048, 3072), RegionAt(80, 96),
     [RegionAt(80, 96) EXCEPT !.rss_kb = 5, !.swap_kb = 1, !.has_smaps_data = TRUE]}
EnrichLists == UNION {[1..n -> EnrichRegions] : n \in 0..MaxLines}

Call_enrich ==
    /\ Fresh
    /\ Quiet
    /\ \E smaps \in EnrichSmapsFiles, regions \in EnrichLists :
           seen' = [op |-> "enrich", smaps |-> smaps, regions |-> regions,
                    listing |-> SmapsParser_parse(smaps),
                    result |-> enrich(smaps, regions),
                    twice |-> enrich(smaps, enrich(smaps, regions).regions)]

NextParse ==
    \/ Call_parse_line
    \/ Call_parse_from_string
    \/ Call_classify_region
    \/ Call_collect_once
    \/ Call_apply_detail_line
    \/ Call_smaps_parse_from_string
    \/ Call_enrich

\* the functions are static and keep no state: one Sampler is enough
InitParse == Init /\ ~config_.use_smaps /\ config_.max_snapshots = 0

SpecParse == InitParse /\ [][NextParse]_vars

\* ================================================================ properties
LastN(s, n) == IF Len(s) <= n THEN s ELSE SubSeq(s, Len(s) - n + 1, Len(s))
Min(a, b) == IF a <= b THEN a ELSE b

\* C1: with max_snapshots = N > 0, what get_snapshots() returns is the last N
\* snapshots the loop has appended, oldest first (all of them while there are
\* fewer than N).
C1_HistoryIsLastN ==
    (config_.max_snapshots > 0 /\ seen.op = "get_snapshots")
        => seen.val = LastN(appended, config_.max_snapshots)

C1_Witness ==
    /\ config_.max_snapshots > 0
    /\ seen.op = "get_snapshots"
    /\ Len(appended) > config_.max_snapshots
    /\ seen.val # << >>

\* C2: with max_snapshots > 0 the history is never longer than max_snapshots,
\* in any state and in anything a reader is returned, and holds
\* min(appended, max_snapshots) snapshots whenever the lock is free; with
\* max_snapshots = 0 nothing is evicted: the history is everything appended.
C2_CapacityNeverExceeded ==
    /\ config_.max_snapshots > 0 =>
          /\ Len(snapshots_) <= config_.max_snapshots
          /\ mutex_ = 0 =>
                Len(snapshots_) = Min(Len(appended), config_.max_snapshots)
          /\ seen.op = "get_snapshots" => Len(seen.val) <= config_.max_snapshots
    /\ config_.max_snapshots = 0 => snapshots_ = appended

C2_Witness ==
    /\ config_.max_snapshots > 0
    /\ Len(snapshots_) = config_.max_snapshots
    /\ Len(appended) = config_.max_snapshots + 1
    /\ mutex_ = 0

\* C3: once stop() has returned, and until start() is called again, no thread
\* of sample_loop is left, no callback is invoked and the history does not
\* change.
C3_QuietAfterStop ==
    /\ [](stop_returned => LiveThreads = {})
    /\ [][stop_returned => (snapshots_' = snapshots_ /\ notified' = notified
                            /\ appended' = appended)]_vars

\* C4: a snapshot the loop takes at a tick where /proc/<pid>/maps is readable
\* has the regions collect_once returns for the same files and use_smaps.
C4_SampleEqualsCollectOnce ==
    \A t \in DOMAIN threads :
        (threads[t].pc = "lock" /\ threads[t].listing.maps.is_open) =>
            threads[t].snapshot.regions =
                collect_once(config_.pid, config_.use_smaps,
                             threads[t].snapshot.timestamp_ms,
                             threads[t].listing.maps,
                             threads[t].listing.smaps).snapshot.regions

\* C5: whatever the interleaving of concurrent start() calls, at most one
\* thread of sample_loop exists.
C5_OneLoopPerSampler == Cardinality(LiveThreads) <= 1

\* a step of thread c that is a call of start()
StartCallStep(c) ==
    /\ callers[c].pc = "idle"
    /\ \/ callers'[c].pc = "start_store"
       \/ callers'[c].pc = "idle" /\ seen'.op = "start"

\* C6: start() called while the Sampler is Running returns at once: no thread
\* is spawned, the flag stays set, history and callbacks are unchanged.
C6_StartWhileRunningIsNoOp ==
    [][\A c \in Callers :
          (RunningState /\ StartCallStep(c)) =>
              /\ callers'[c].pc = "idle"
              /\ seen' = [op |-> "start", spawned |-> FALSE]
              /\ running_'
              /\ UNCHANGED <<running_, thread_, threads, snapshots_, callbacks_>>]_vars

C6_Witness ==
    /\ seen.op = "start"
    /\ ~seen.spawned
    /\ RunningState
    /\ snapshots_ # << >>
    /\ callbacks_ # << >>

\* a step of thread c inside a stop() that was called on an Idle Sampler
IdleStopStep(c) ==
    \/ IdleState /\ callers[c].pc = "idle" /\ callers'[c].pc = "stop_join"
    \/ callers[c].pc = "stop_join" /\ callers[c].was_idle /\ callers'[c].pc = "idle"

\* C7: stop() called on an Idle Sampler does not block (its join is not
\* taken), leaves the flag clear and the thread handle, history and callbacks
\* as they were.
C7_StopWhileIdleIsNoOp ==
    /\ [](\A c \in Callers :
            (callers[c].pc = "stop_join" /\ callers[c].was_idle) =>
                (~running_ /\ thread_ = 0 /\ ENABLED StopJoin(c)))
    /\ [][\A c \in Callers :
            IdleStopStep(c) =>
                /\ ~running_'
                /\ UNCHANGED <<running_, thread_, threads, snapshots_, callbacks_>>]_vars

C7_Witness ==
    /\ seen.op = "stop"
    /\ seen.was_idle
    /\ ~seen.joined
    /\ IdleState
    /\ appended # << >>

\* C8: whenever is_running() returns false, no thread of sample_loop is
\* executing.
C8_NotRunningMeansNoLoop ==
    (seen.op = "is_running" /\ ~seen.flag) => LiveThreads = {}

\* the callbacks invoked so far for the last snapshot pushed
Invoked == [i \in 1..Len(notified.calls) |-> notified.calls[i].cb]
Notifying == \E t \in DOMAIN threads : threads[t].pc = "notify"

\* C9: every callback registered when a snapshot is pushed is invoked exactly
\* once with that snapshot, in registration order, between the push and the
\* release of the lock: while the loop is notifying, the callbacks invoked
\* are a prefix of the registered ones, and once it no longer is, all of them.
C9_EveryObserverInvokedOnce ==
    /\ \A i \in 1..Len(notified.calls) : notified.calls[i].snapshot = notified.snapshot
    /\ Invoked = Take(notified.callbacks, Len(Invoked))
    /\ (aborted \/ ~Notifying) => Invoked = notified.callbacks

\* C10: a callback that raises, whatever it raises, does not stop the loop:
\* the step that invokes it goes on to the next callback of the tick and
\* leaves the history alone.
C10_ObserverErrorContained ==
    [][\A t \in DOMAIN threads :
          (threads[t].pc = "notify" /\ notified'.calls # notified.calls) =>
              /\ ~aborted'
              /\ threads'[t].pc = "notify"
              /\ threads'[t].i = threads[t].i + 1
              /\ snapshots_' = snapshots_]_vars

\* a thread that has just taken its snapshot at a tick where /proc/<pid>/maps
\* could not be opened
Unreadable(t) ==
    t \in DOMAIN threads /\ threads[t].pc = "lock" /\ ~threads[t].listing.maps.is_open

\* the tick of thread t is through: its snapshot is the last one appended and
\* every callback registered at the push has been invoked for it
TickDone(t) ==
    /\ t \in DOMAIN threads
    /\ threads[t].pc = "sleep"
    /\ appended # << >> /\ appended[Len(appended)] = threads[t].snapshot
    /\ notified.snapshot = threads[t].snapshot
    /\ Invoked = notified.callbacks

C12_UnavailableIffNoListing ==
    seen.op = "collect_once" =>
        /\ ~seen.result.ok <=> ~seen.maps.is_open
        /\ ~seen.maps.is_open => ~seen.enrich_called
        /\ (seen.maps.is_open /\ seen.maps.content = Str0) =>
               (seen.result.ok /\ seen.result.snapshot.regions = << >>)

C12_Witness ==
    /\ seen.op = "collect_once"
    /\ ~seen.maps.is_open
    /\ seen.use_smaps /\ seen.smaps.is_open
    /\ ~seen.result.ok

\* the seven fields of the detail are zero and the flag is unset
NoDetail(r) ==
    /\ ~r.has_smaps_data
    /\ r.rss_kb = 0 /\ r.pss_kb = 0 /\ r.shared_clean_kb = 0 /\ r.shared_dirty_kb = 0
    /\ r.private_clean_kb = 0 /\ r.private_dirty_kb = 0 /\ r.swap_kb = 0

\* C13: when maps is read, use_smaps is set and /proc/<pid>/smaps cannot be
\* opened, collect_once returns the snapshot of the regions parsed from maps,
\* none of them with detail.
C13_EnrichFailureNotSurfaced ==
    (seen.op = "collect_once" /\ seen.maps.is_open /\ seen.use_smaps
        /\ ~seen.smaps.is_open) =>
        /\ seen.result.ok
        /\ seen.result.snapshot.regions = MapsParser_parse_from_string(seen.maps.content)
        /\ \A i \in 1..Len(seen.result.snapshot.regions) :
               NoDetail(seen.result.snapshot.regions[i])

C13_Witness ==
    /\ seen.op = "collect_once"
    /\ seen.maps.is_open /\ seen.use_smaps /\ ~seen.smaps.is_open
    /\ seen.result.ok
    /\ Len(seen.result.snapshot.regions) = 2

\* the history after the first n pushes
HistoryAt(n) ==
    IF config_.max_snapshots > 0
    THEN LastN(SubSeq(appended, 1, n), config_.max_snapshots)
    ELSE SubSeq(appended, 1, n)

\* C14: the vector a get_snapshots() returned is the whole history as it was
\* after some number of pushes, a number reached between the call and the
\* return (never the vector between an erase and a push), and stays what it is
\* while the loop goes on.
C14_HistoryIsLinearizable ==
    \A c \in Callers :
        callers[c].copied =>
            \E n \in callers[c].from..callers[c].to : callers[c].copy = HistoryAt(n)

C14_Witness ==
    \E c \in Callers :
        /\ callers[c].copied
        /\ callers[c].pc = "idle"
        /\ callers[c].from < callers[c].to
        /\ callers[c].copy # << >>
        /\ Len(appended) > callers[c].to
        /\ config_.max_snapshots = 1

\* C15: get_latest() returns std::nullopt exactly when nothing is in the
\* history when it holds the lock (which is when nothing was ever pushed), and
\* otherwise the snapshot pushed last, the last element of the history.
C15_LatestIsLastAppended ==
    seen.op = "get_latest" =>
        /\ seen.val = << >> <=> HistoryAt(Len(appended)) = << >>
        /\ appended = << >> => seen.val = << >>
        /\ appended # << >> =>
              /\ seen.val = <<appended[Len(appended)]>>
              /\ seen.val[1] = HistoryAt(Len(appended))[Len(HistoryAt(Len(appended)))]

C15_Witness ==
    /\ seen.op = "get_latest"
    /\ Len(appended) >= 2
    /\ Len(snapshots_) >= 2
    /\ seen.val = <<appended[Len(appended)]>>
    /\ appended[1] # appended[Len(appended)]

\* the six fields of region r are the values v
SameFields(r, v) ==
    /\ r.start_addr = v.start /\ r.end_addr = v.end
    /\ r.permissions = v.perms /\ r.offset = v.offset
    /\ r.device = v.dev /\ r.inode = v.inode

\* C16: parse_line of a line written from six field values returns a region
\* with those values as start, end, permissions, offset, device and inode,
\* with or without a pathname after them.
C16_FieldsRoundTrip ==
    (seen.op = "parse_line" /\ seen.given) =>
        (seen.region.ok /\ SameFields(seen.region.region, seen.fields))

C16_Witness ==
    /\ seen.op = "parse_line" /\ seen.given
    /\ seen.region.ok
    /\ seen.fields.start = 2048 /\ seen.fields.end = 3072
    /\ seen.fields.offset = 16 /\ seen.fields.inode = 7
    /\ seen.label = <<"/", "a", " ", "b">>
    /\ seen.region.region.start_addr = 2048

\* C17: the pathname parse_line returns is the text after the inode without
\* the white space around it, empty when there is none, whatever white space
\* the line has where sscanf accepts white space.
C17_LabelIsTextAfterInode ==
    (seen.op = "parse_line" /\ seen.given /\ seen.region.ok) =>
        seen.region.region.pathname = seen.label

\* C18: parse_from_string returns one region for each line of the text that
\* supplies six fields, in the order of the lines; empty lines and lines
\* without six fields add nothing and hide no later line.
GoodOf(items) == SelectSeq(items, LAMBDA it : it.good)

C18_OneRegionPerGoodLine ==
    seen.op = "parse_from_string" =>
        /\ Len(seen.regions) = Len(GoodOf(seen.items))
        /\ \A i \in 1..Len(seen.regions) :
              /\ SameFields(seen.regions[i], GoodOf(seen.items)[i].fields)
              /\ seen.regions[i].pathname = GoodOf(seen.items)[i].label

C18_Witness ==
    /\ seen.op = "parse_from_string"
    /\ Len(seen.items) = 3
    /\ seen.items[1].good /\ ~seen.items[2].good /\ seen.items[3].good
    /\ seen.items[1] # seen.items[3]
    /\ Len(seen.regions) = 2
    /\ seen.regions[2].start_addr = seen.items[3].fields.start

\* the execute bit of a permissions string
ExecBit(permissions) == Len(permissions) >= 3 /\ permissions[3] = "x"
IsFilePath(pathname) == pathname # Str0 /\ pathname[1] = "/"
IsStack(pathname) == pathname # <<"[", "h", "e", "a", "p", "]">> /\ Contains(pathname, <<"[", "s", "t", "a", "c", "k">>)
IsMarker(pathname) ==
    pathname \in {<<"[", "h", "e", "a", "p", "]">>, <<"[", "v", "d", "s", "o", "]">>, <<"[", "v", "v", "a", "r", "]">>, <<"[", "v", "s", "y", "s", "c", "a", "l", "l", "]">>} \/ IsStack(pathname)

\* C19: classify_region returns a type for every pathname and permissions,
\* the one of the first rule that matches: "[heap]"; a pathname containing
\* "[stack"; "[vdso]", "[vvar]", "[vsyscall]"; a pathname starting with "/"
\* (".so" in it, else the execute bit, else a mapped file); the empty pathname
\* (the execute bit, else anonymous); unknown otherwise.
C19_ClassifyIsRuleList ==
    seen.op = "classify_region" =>
        /\ seen.type \in RegionType
        /\ seen.pathname = <<"[", "h", "e", "a", "p", "]">> => seen.type = "HEAP"
        /\ IsStack(seen.pathname) => seen.type = "STACK"
        /\ seen.pathname = <<"[", "v", "d", "s", "o", "]">> => seen.type = "VDSO"
        /\ seen.pathname = <<"[", "v", "v", "a", "r", "]">> => seen.type = "VVAR"
        /\ seen.pathname = <<"[", "v", "s", "y", "s", "c", "a", "l", "l", "]">> => seen.type = "VSYSCALL"
        /\ (IsFilePath(seen.pathname) /\ ~IsMarker(seen.pathname)) =>
              seen.type = IF Contains(seen.pathname, <<".", "s", "o">>) THEN "SHARED_LIB"
                          ELSE IF ExecBit(seen.permissions) THEN "CODE"
                          ELSE "MAPPED_FILE"
        /\ seen.pathname = Str0 =>
              seen.type = IF ExecBit(seen.permissions) THEN "CODE" ELSE "ANONYMOUS"
        /\ (seen.pathname # Str0 /\ ~IsFilePath(seen.pathname)
               /\ ~IsMarker(seen.pathname)) => seen.type = "UNKNOWN"

C19_Witness ==
    /\ seen.op = "classify_region"
    /\ seen.pathname = <<"/", "l", ".", "s", "o", ".", "6">>
    /\ seen.permissions = <<"r", "-", "x", "p">>
    /\ seen.type = "SHARED_LIB"

\* C20: a region parse_line returns has end_addr >= start_addr, size_bytes()
\* is end_addr - start_addr without wrapping, and size_kb is that over 1024.
C20_SizeIsEndMinusStart ==
    (seen.op = "parse_line" /\ seen.region.ok) =>
        /\ seen.region.region.end_addr >= seen.region.region.start_addr
        /\ size_bytes(seen.region.region) =
              seen.region.region.end_addr - seen.region.region.start_addr
        /\ seen.region.region.size_kb =
              (seen.region.region.end_addr - seen.region.region.start_addr) \div 1024

\* the field that a key of a detail line names
FieldOfKey(key) ==
    CASE key = Key_Size -> "size_kb"
      [] key = Key_Rss -> "rss_kb"
      [] key = Key_Pss -> "pss_kb"
      [] key = Key_Shared_Clean -> "shared_clean_kb"
      [] key = Key_Shared_Dirty -> "shared_dirty_kb"
      [] key = Key_Private_Clean -> "private_clean_kb"
      [] key = Key_Private_Dirty -> "private_dirty_kb"
      [] key = Key_Swap -> "swap_kb"

\* the fields in which two regions differ
ChangedFields(a, b) == {f \in DOMAIN a : a[f] # b[f]}

\* C21: apply_detail_line changes at most one field of the region; with one
\* of the eight keys before the colon it sets the field of that name, and no
\* other, to the number after the colon; with any other key, or without a
\* colon, it changes nothing.
C21_DetailLineSetsOneField ==
    seen.op = "apply_detail_line" =>
        /\ Cardinality(ChangedFields(seen.region, seen.result)) <= 1
        /\ (seen.given /\ seen.key \in DetailKeys) =>
              seen.result = [seen.region EXCEPT ![FieldOfKey(seen.key)] = seen.value]
        /\ (seen.given /\ seen.key \notin DetailKeys) => seen.result = seen.region
        /\ (~seen.given /\ FindChar(seen.line, ":") = 0) => seen.result = seen.region

C21_Witness ==
    /\ seen.op = "apply_detail_line" /\ seen.given
    /\ seen.key = Key_Rss /\ seen.value = 132
    /\ seen.region = DetailedRegion
    /\ ChangedFields(seen.region, seen.result) = {"rss_kb"}
    /\ seen.result.rss_kb = 132

\* the header items of a text, in order
HeadersOf(items) == SelectSeq(items, LAMBDA it : it.kind = "header")

\* the detail lines above the first header of a text
Prelude(items) ==
    {j \in 1..Len(items) :
        /\ items[j].kind = "detail"
        /\ \A i \in 1..j : items[i].kind # "header"}

\* C22: detail lines above the first header of an smaps text are ignored:
\* they make no region, and the regions are those of the text without them.
C22_DetailBeforeHeaderIgnored ==
    (seen.op = "smaps_parse_from_string" /\ Prelude(seen.items) # {}) =>
        /\ Len(seen.regions) = Len(HeadersOf(seen.items))
        /\ seen.regions = seen.without

C22_Witness ==
    /\ seen.op = "smaps_parse_from_string"
    /\ Len(seen.items) = 3
    /\ seen.items[1] = DetailItem(Key_Rss, 132)
    /\ seen.items[2].kind = "header"
    /\ seen.items[3] = DetailItem(Key_Swap, 8)
    /\ Len(seen.regions) = 1
    /\ seen.regions[1].rss_kb = 0
    /\ seen.regions[1].swap_kb = 8

\* the positions of the header items of a text, and the k-th of them
HeaderPositions(items) == {i \in 1..Len(items) : items[i].kind = "header"}
HeaderPosition(items, k) ==
    CHOOSE i \in HeaderPositions(items) :
        Cardinality({j \in HeaderPositions(items) : j <= i}) = k

\* the detail lines of the header at position i that name field f: those
\* below it with no header in between
DetailsFor(items, i, f) ==
    {j \in (i + 1)..Len(items) :
        /\ items[j].kind = "detail"
        /\ FieldOfKey(items[j].key) = f
        /\ \A h \in (i + 1)..j : items[h].kind # "header"}

Max(S) == CHOOSE x \in S : \A y \in S : y <= x

DetailFields == {"size_kb", "rss_kb", "pss_kb", "shared_clean_kb", "shared_dirty_kb",
                 "private_clean_kb", "private_dirty_kb", "swap_kb"}

\* the region of the header at position i: what parse_line gives for the
\* line, the flag set, and each detail field from the last line of the
\* header that names it
ExpectedDetail(items, i, f, base) ==
    IF f = "has_smaps_data" THEN TRUE
    ELSE IF f \in DetailFields /\ DetailsFor(items, i, f) # {}
    THEN items[Max(DetailsFor(items, i, f))].value
    ELSE base[f]

ExpectedRegion(items, i) ==
    [f \in DOMAIN MemoryRegion |->
        ExpectedDetail(items, i, f, parse_line(items[i].line).region)]

\* C23: the detail parser returns one region per header line, in order, with
\* the base fields parse_line gives for the line and has_smaps_data set, and
\* the detail lines below a header, up to the next header, change the region
\* of that header only.
C23_OneRegionPerHeader ==
    seen.op = "smaps_parse_from_string" =>
        /\ Len(seen.regions) = Cardinality(HeaderPositions(seen.items))
        /\ \A k \in 1..Len(seen.regions) :
              seen.regions[k] = ExpectedRegion(seen.items, HeaderPosition(seen.items, k))

C23_Witness ==
    /\ seen.op = "smaps_parse_from_string"
    /\ Len(seen.items) = 3
    /\ seen.items[1].kind = "header"
    /\ seen.items[2].kind = "header"
    /\ seen.items[3] = DetailItem(Key_Rss, 4)
    /\ Len(seen.regions) = 2
    /\ seen.regions[1].start_addr = 64 /\ seen.regions[1].rss_kb = 0
    /\ seen.regions[2].start_addr = 2048 /\ seen.regions[2].rss_kb = 4
    /\ seen.regions[1].has_smaps_data /\ seen.regions[2].has_smaps_data

\* the entries of the detail listing at the start address of a region
Matches(listing, region) ==
    {j \in 1..Len(listing) : listing[j].start_addr = region.start_addr}

SameDetail(region, sr) ==
    /\ region.rss_kb = sr.rss_kb
    /\ region.pss_kb = sr.pss_kb
    /\ region.shared_clean_kb = sr.shared_clean_kb
    /\ region.shared_dirty_kb = sr.shared_dirty_kb
    /\ region.private_clean_kb = sr.private_clean_kb
    /\ region.private_dirty_kb = sr.private_dirty_kb
    /\ region.swap_kb = sr.swap_kb

\* C24: after an enrich that succeeded, each region of the list whose start
\* address is that of an entry of the detail listing has the seven detail
\* fields of such an entry and has_smaps_data set.
C24_MatchedRegionsGetDetail ==
    (seen.op = "enrich" /\ seen.result.ok) =>
        /\ Len(seen.result.regions) = Len(seen.regions)
        /\ \A i \in 1..Len(seen.regions) :
              Matches(seen.listing.regions, seen.regions[i]) # {} =>
                  /\ seen.result.regions[i].has_smaps_data
                  /\ \E j \in Matches(seen.listing.regions, seen.regions[i]) :
                        SameDetail(seen.result.regions[i], seen.listing.regions[j])

C24_Witness ==
    /\ seen.op = "enrich" /\ seen.result.ok
    /\ Len(seen.listing.regions) = 2
    /\ seen.listing.regions[1].swap_kb = 8
    /\ seen.regions = <<PlainRegion, RegionAt(2048, 3072)>>
    /\ seen.result.regions[1].rss_kb = 132 /\ seen.result.regions[1].swap_kb = 8
    /\ seen.result.regions[2].rss_kb = 4
    /\ seen.result.regions[2].has_smaps_data

\* C25: enrich leaves a region whose start address no entry of the detail
\* listing has as it was, in every field, has_smaps_data included.
C25_UnmatchedRegionsUntouched ==
    seen.op = "enrich" =>
        /\ Len(seen.result.regions) = Len(seen.regions)
        /\ \A i \in 1..Len(seen.regions) :
              Matches(seen.listing.regions, seen.regions[i]) = {} =>
                  seen.result.regions[i] = seen.regions[i]

C25_Witness ==
    /\ seen.op = "enrich" /\ seen.result.ok
    /\ Len(seen.listing.regions) = 2
    /\ seen.regions = <<RegionAt(80, 96), PlainRegion>>
    /\ seen.result.regions[1] = RegionAt(80, 96)
    /\ ~seen.result.regions[1].has_smaps_data
    /\ seen.result.regions[2] # PlainRegion

\* C26: enrich applied twice with the same detail listing gives the list
\* that enrich applied once gives.
C26_EnrichIdempotent ==
    seen.op = "enrich" => seen.twice = seen.result

C26_Witness ==
    /\ seen.op = "enrich" /\ seen.result.ok
    /\ seen.regions = <<DetailedRegion, RegionAt(2048, 3072)>>
    /\ Len(seen.listing.regions) = 2
    /\ seen.result.regions # seen.regions
    /\ seen.twice.regions = seen.result.regions

\* C27: enrich returns false exactly when smaps could not be opened, and then
\* the list is as it was; with smaps opened it returns true, also when no
\* region matches and when the listing is empty.
C27_EnrichFailsIffNoSource ==
    seen.op = "enrich" =>
        /\ seen.result.ok <=> seen.smaps.is_open
        /\ ~seen.result.ok => seen.result.regions = seen.regions

C27_Witness ==
    /\ seen.op = "enrich"
    /\ ~seen.smaps.is_open
    /\ seen.regions = <<PlainRegion, DetailedRegion>>
    /\ ~seen.result.ok
    /\ seen.result.regions = seen.regions

\* the callbacks invoked for the last snapshot pushed, as a set
InvokedSet == {notified.calls[i].cb : i \in 1..Len(notified.calls)}
Registered == {callbacks_[i] : i \in 1..Len(callbacks_)}

\* C28: a callback given to DataCollector::on_snapshot while there is no
\* sampler is dropped: it is in no sampler's callbacks_ and is invoked for no
\* snapshot, also after a later start_sampling; and without a sampler
\* get_all_snapshots returns an empty vector and get_latest_snapshot nullopt.
C28_CallbackWithoutSamplerDropped ==
    /\ dropped \cap Registered = {}
    /\ dropped \cap InvokedSet = {}
    /\ ~sampler_ => appended = << >>
    /\ (seen.op \in {"get_all_snapshots", "get_latest_snapshot"} /\ ~seen.sampler) =>
          seen.val = << >>

C28_Witness ==
    /\ dropped # {}
    /\ sampler_
    /\ appended # << >>
    /\ InvokedSet # {}
    /\ InvokedSet = Registered

\* thread t is between the test of the flag and the end of its tick
InFlight(t) == threads[t].pc \in {"take", "lock", "evict", "push", "notify"}

\* the statement after the one at pc, inside a tick
NextInTick(pc) ==
    CASE pc = "take" -> "lock"
      [] pc = "lock" -> "evict"
      [] pc = "evict" -> "push"
      [] pc = "push" -> "notify"
      [] pc = "notify" -> "sleep"

\* the last sample of thread t has been pushed, with the eviction, and given
\* to every callback registered at the push
Delivered(t) ==
    /\ appended # << >> /\ appended[Len(appended)] = threads[t].snapshot
    /\ snapshots_ # << >> /\ snapshots_[Len(snapshots_)] = threads[t].snapshot
    /\ config_.max_snapshots > 0 => Len(snapshots_) <= config_.max_snapshots
    /\ notified.snapshot = threads[t].snapshot
    /\ Invoked = notified.callbacks

Sleeping(t) == threads[t].pc \in {"sleep", "check"}

\* C30: with the flag cleared while the loop is in its sleep, the thread
\* leaves the sleep and sample_loop: it takes no snapshot, pushes nothing and
\* invokes no callback any more.
C30_StopDuringSleepExits ==
    /\ [][\A t \in DOMAIN threads :
            (Sleeping(t) /\ ~running_) =>
                /\ threads'[t].pc \in {"sleep", "check", "done"}
                /\ threads'[t].snapshot = threads[t].snapshot
                /\ UNCHANGED <<snapshots_, appended, notified>>]_vars
    /\ \A t \in 1..MaxSpawns :
          (t \in DOMAIN threads /\ threads[t].pc = "sleep" /\ ~running_)
              ~> (t \in DOMAIN threads /\ ~Live(t))

C30_Witness ==
    \E t \in DOMAIN threads :
        /\ threads[t].pc = "sleep"
        /\ ~running_
        /\ callers["c1"].pc = "stop_join"
        /\ appended # << >>

\* the fields enrich may write
EnrichedFields == {"rss_kb", "pss_kb", "shared_clean_kb", "shared_dirty_kb",
                   "private_clean_kb", "private_dirty_kb", "swap_kb", "has_smaps_data"}

\* C36: enrich keeps the number and the order of the regions and, in each
\* region, matched or not, every field but the seven detail fields and the
\* flag: start, end, permissions, offset, device, inode, pathname, type and
\* size_kb are as before.
C36_EnrichKeepsShape ==
    seen.op = "enrich" =>
        /\ Len(seen.result.regions) = Len(seen.regions)
        /\ \A i \in 1..Len(seen.regions) :
              ChangedFields(seen.regions[i], seen.result.regions[i]) \subseteq EnrichedFields

C36_Witness ==
    /\ seen.op = "enrich" /\ seen.result.ok
    /\ seen.regions = <<RegionAt(80, 96), DetailedRegion, RegionAt(2048, 3072)>>
    /\ Len(seen.listing.regions) = 2
    /\ seen.listing.regions[1].size_kb # DetailedRegion.size_kb
    /\ seen.result.regions[2].rss_kb = 132
    /\ seen.result.regions[2].size_kb = DetailedRegion.size_kb
    /\ seen.result.regions[3].start_addr = 2048

\* C37: with several entries of one start address in the detail listing,
\* every region of that start address gets the values of the last of them.
C37_LastDuplicateWins ==
    (seen.op = "enrich" /\ seen.result.ok) =>
        \A i \in 1..Len(seen.regions) :
            Matches(seen.listing.regions, seen.regions[i]) # {} =>
                SameDetail(seen.result.regions[i],
                           seen.listing.regions[Max(Matches(seen.listing.regions,
                                                            seen.regions[i]))])

C37_Witness ==
    /\ seen.op = "enrich" /\ seen.result.ok
    /\ Len(seen.listing.regions) = 2
    /\ seen.listing.regions[1].start_addr = seen.listing.regions[2].start_addr
    /\ seen.listing.regions[1].rss_kb = 4 /\ seen.listing.regions[2].rss_kb = 132
    /\ seen.regions = <<PlainRegion, DetailedRegion>>
    /\ seen.result.regions[1].rss_kb = 132
    /\ seen.result.regions[2].rss_kb = 132

\* a line of an smaps text that begins with a hex digit and is no header
BrokenHeader(item) ==
    item.kind = "other" /\ item.line # Str0 /\ IsXDigit(item.line[1])

\* the detail line at d belongs to the header at i, is the last of its key
\* there, and a line that looks like a header and is none lies between them
AcrossBrokenHeader(items, i, d) ==
    /\ items[i].kind = "header"
    /\ items[d].kind = "detail"
    /\ \A h \in (i + 1)..d : items[h].kind # "header"
    /\ \E b \in (i + 1)..(d - 1) : BrokenHeader(items[b])
    /\ d = Max(DetailsFor(items, i, FieldOfKey(items[d].key)))

\* C38: a line that begins with a hex digit and does not parse as a header
\* makes no region and does not end the block: the detail lines after it go
\* to the region of the last header that parsed.
C38_BrokenHeaderKeepsBlock ==
    seen.op = "smaps_parse_from_string" =>
        /\ Len(seen.regions) = Cardinality(HeaderPositions(seen.items))
        /\ \A k \in 1..Len(seen.regions) : \A d \in 1..Len(seen.items) :
              AcrossBrokenHeader(seen.items, HeaderPosition(seen.items, k), d) =>
                  seen.regions[k][FieldOfKey(seen.items[d].key)] = seen.items[d].value

C38_Witness ==
    /\ seen.op = "smaps_parse_from_string"
    /\ Len(seen.items) = 3
    /\ seen.items[1].kind = "header"
    /\ BrokenHeader(seen.items[2])
    /\ seen.items[3] = DetailItem(Key_Rss, 132)
    /\ Len(seen.regions) = 1
    /\ seen.regions[1].rss_kb = 132

\* a thread of sample_loop is in a callback that never returns
Hung(t) == threads[t].pc = "hung"
SomeHung == \E t \in DOMAIN threads : Hung(t)

\* C31: with the threads scheduled fairly and every callback returning, a
\* stop() that has cleared the flag returns; a callback that never returns
\* keeps its thread in the loop for ever, and a stop() then never returns.
C31_StopReturnsUnlessObserverHangs ==
    /\ \A c \in Controller :
          (callers[c].pc = "stop_join") ~> (aborted \/ SomeHung \/ stop_returned)
    /\ [][\A t \in DOMAIN threads :
            Hung(t) =>
                /\ Hung(t)'
                /\ ~stop_returned'
                /\ \A c \in Controller :
                      callers[c].pc = "stop_join" => callers'[c].pc = "stop_join"]_vars

C31_Witness ==
    \E t \in DOMAIN threads :
        /\ Hung(t)
        /\ thread_ = t
        /\ ~running_
        /\ callers["c1"].pc = "stop_join"
        /\ Len(appended) >= 2

\* a thread of sample_loop is inside the block that holds the mutex
InCritical(t) == threads[t].pc \in {"evict", "push", "notify"}

\* every callback registered at the last push has been invoked for it
LastNotified == appended # << >> => Invoked = notified.callbacks

\* C32: the callbacks are invoked inside the critical section: when
\* get_snapshots() or get_latest() returns, every snapshot of the history has
\* been given to all the callbacks registered at its push (a push happens only
\* when the one before is notified, and a reader sees the last one only when
\* it is); and on_snapshot() adds no callback while a tick is notifying, so
\* the callbacks of a tick are those registered at its push.
C32_ReadersSeeNotifiedSnapshots ==
    /\ []((seen.op \in {"get_snapshots", "get_latest"}) =>
             /\ LastNotified
             /\ \A i \in 1..Len(seen.val) :
                   \E j \in 1..Len(appended) : appended[j] = seen.val[i])
    /\ [][/\ appended' # appended => LastNotified
          /\ (\E t \in DOMAIN threads : InCritical(t)) => callbacks_' = callbacks_]_vars
    /\ [](\A t \in DOMAIN threads :
             threads[t].pc = "notify" => notified.callbacks = callbacks_)

C32_Witness ==
    /\ seen.op = "get_latest"
    /\ running_
    /\ Len(appended) >= 2
    /\ seen.val = <<notified.snapshot>>
    /\ Len(notified.callbacks) >= 2
    /\ Invoked = notified.callbacks

\* the callbacks whose on_snapshot() had returned when the last snapshot was
\* pushed, and those invoked for it
RegisteredAtPush == {notified.callbacks[i] : i \in 1..Len(notified.callbacks)}

\* C33: a callback registered while the Sampler runs is invoked for every
\* snapshot pushed after its on_snapshot() returned, once the tick is
\* through, and for no snapshot pushed before; and on_snapshot() only adds
\* the callback at the end of callbacks_.
C33_LateObserverSeesLaterSnapshots ==
    /\ []((aborted \/ ~Notifying) => RegisteredAtPush \subseteq InvokedSet)
    /\ [](InvokedSet \subseteq RegisteredAtPush)
    /\ [][callbacks_' # callbacks_ =>
             \E cb \in Observers : callbacks_' = Append(callbacks_, cb)]_vars

\* a step of a call of start() or stop()
ControlStep == callers' # callers

\* the history between two ticks, by the capacity rule over everything that
\* was ever pushed
HistoryByRule ==
    snapshots_ = IF config_.max_snapshots > 0
                 THEN LastN(appended, config_.max_snapshots) ELSE appended

\* C34: a Sampler can be started again: start() and stop() leave the history
\* and the callbacks as they are, after start(); stop(); start() the Sampler
\* is Running with one thread of sample_loop, the one thread_ holds, and the
\* snapshots of the new loop come after the old ones under the same rule.
C34_SamplerIsRestartable ==
    /\ [][ControlStep => UNCHANGED <<snapshots_, callbacks_, appended>>]_vars
    /\ []((RunningState /\ NoControlCall) => LiveThreads = {thread_})
    /\ [](Cardinality(LiveThreads) <= 1)
    /\ [](mutex_ = 0 => HistoryByRule)

C34_Witness ==
    /\ Len(threads) = 2
    /\ RunningState /\ NoControlCall
    /\ ~Live(1) /\ LiveThreads = {2}
    /\ mutex_ = 0
    /\ callbacks_ # << >>
    /\ Len(snapshots_) = 2
    /\ snapshots_[1] = threads[1].snapshot
    /\ snapshots_[2] = threads[2].snapshot
    /\ Len(notified.calls) = Len(callbacks_)

\* the thread of the sampler the collector has now: none while start() of a
\* new sampler has not spawned it
SessionThread ==
    IF \E c \in Controller : callers[c].pc \in {"start_store", "start_spawn"}
    THEN 0 ELSE Len(threads)

\* no snapshot of s is as old as the last one of a sampler that was replaced
AfterOldSessions(s) ==
    \A i \in 1..Len(s) : \A t \in DOMAIN threads \ {SessionThread} :
        threads[t].snapshot # NoSnapshot =>
            s[i].timestamp_ms > threads[t].snapshot.timestamp_ms

\* C35: start_sampling changes nothing while the sampler runs; called with no
\* sampler running it makes a new Sampler, with an empty history and no
\* callbacks: get_all_snapshots returns nothing of the sessions before, and
\* the callbacks invoked for a snapshot are those registered with the sampler
\* that pushed it.
C35_StartSamplingReplacesSampler ==
    /\ [][(seen'.op = "start_sampling") =>
             /\ sampler_ /\ running_
             /\ UNCHANGED <<sampler_, running_, thread_, threads, snapshots_,
                            callbacks_, callers>>]_vars
    /\ [][\A c \in Controller :
             (callers[c].pc = "idle" /\ callers'[c].pc = "start_store") =>
                 /\ ~(sampler_ /\ running_)
                 /\ sampler_'
                 /\ snapshots_' = << >>
                 /\ callbacks_' = << >>]_vars
    /\ [](AfterOldSessions(snapshots_))
    /\ [](seen.op = "get_all_snapshots" => AfterOldSessions(seen.val))
    /\ [](/\ InvokedSet \subseteq RegisteredAtPush
          /\ \A t \in DOMAIN threads :
                threads[t].pc = "notify" => notified.callbacks = callbacks_)

C35_Witness ==
    /\ seen.op = "get_all_snapshots"
    /\ config_.max_snapshots = 0
    /\ Len(threads) = 2 /\ ~Live(1) /\ Live(2)
    /\ threads[1].snapshot # NoSnapshot
    /\ seen.val = <<threads[2].snapshot>>
    /\ Len(appended) >= 2
    /\ callbacks_ = << >>
    /\ notified.snapshot = threads[2].snapshot
    /\ notified.calls = << >>

====
